---- MODULE Spec2Model ----
(***************************************************************************)
(* A model of mcp-trace-js: the TraceMiddleware that intercepts the        *)
(* messages of an MCP transport and correlates responses with requests,    *)
(* the MultiAdapter fan-out and the buffering ContexaTraceAdapter.         *)
(*                                                                         *)
(* An optional JavaScript value is a sequence of length 0 (undefined) or 1 *)
(* (the value), so that values of one field always compare.                *)
(***************************************************************************)
EXTENDS Integers, Sequences, FiniteSets, TLC

VARIABLES
    logFields,               \* TraceMiddleware.logFields: field name -> BOOLEAN
    redactMode,              \* options.redact: "none", "mask" or "throws"
    userMode,                \* options.identifyUser: "none", "ok" or "throws"
    hasOrigOnMessage,        \* transport.onmessage was set when handle() wrapped it
    origMode,                \* the original hooks: "ok", or "throw" (they throw when called)
    sinkMode,                \* adapter.export: "ok", "throw", "reject", "slow" (its promise
                             \* settles later) or "hang" (its promise never settles)
    pendingRequests,         \* TraceMiddleware.pendingRequests: id -> entry
    pendingRequestTimeouts,  \* TraceMiddleware.pendingRequestTimeouts: id -> timer handle
    timers,                  \* the eviction timers scheduled and neither fired nor cleared
    nextHandle,              \* the handle the next setTimeout returns
    exported,                \* the calls of adapter.export made by the middleware, in order
    unhandled,               \* promises returned by adapter.export that rejected with no handler
    unsettled,               \* promises returned by adapter.export that have not settled
    evicted,                 \* history: the timer handles of the requests evicted unanswered
    clock,                   \* Date.now(), in ms
    steps,                   \* the number of steps taken (bounds the run)
    last,                    \* what the last step was and what its caller saw
    options,                 \* the options `new TraceMiddleware(options)` was given
    constructed,             \* whether `new TraceMiddleware(options)` gave an instance
    thrown,                  \* the message of the Error the constructor threw, if any
    attachCount,             \* how many times handle(transport) has wrapped the hooks of
                             \* each transport
    maAdapters,              \* MultiAdapter.adapters: how each sink's export behaves
    maCalls,                 \* the calls of MultiAdapter.export, in order, each with the
                             \* state of its per-sink promises and what they logged
    maReceived,              \* per sink: the records its export was called with, in order
    maOptional,              \* per sink: what its flush and its shutdown property are
    maCtl,                   \* the calls of MultiAdapter.flush and shutdown, in order, each
                             \* with its method, the caller's timeout, its wrappers and
                             \* its result
    maInvoked,               \* per sink: the calls of its flush and shutdown, in order
    cxBufferSize,            \* ContexaTraceAdapter.bufferSize
    cxMaxRetries,            \* ContexaTraceAdapter.maxRetries
    cxBuffer,                \* ContexaTraceAdapter.buffer
    cxIsRunning,             \* ContexaTraceAdapter.isRunning
    cxStop,                  \* ContexaTraceAdapter.stop
    cxWorker,                \* ContexaTraceAdapter.worker is an interval (not null)
    cxFlush,                 \* the call of flush(): its state ("idle", "running", "done"),
                             \* its caller, its timeout and Date.now() - start
    cxSends,                 \* the calls of sendEventWithRetry that have not returned
    cxDelivered,             \* the events the server answered ok, in order
    cxLog,                   \* what the adapter logged with console.warn and console.error:
                             \* the number of lines of each text
    cxExports,               \* history: the number of calls of export
    cxShifted,               \* history: the events taken from the buffer, in order
    cxAttempts,              \* history: per event, the number of fetches made for it
    cxDropped,               \* history: the events given up after maxRetries attempts
    cxLast,                  \* history: the last operation, the buffer and log before it,
                             \* and the time it took
    otInstalled,             \* whether the OpenTelemetry packages can be imported
    otSpans,                 \* the spans OTLPAdapter.export started and ended, in order,
                             \* each with its record and Date.now() at the call
    otFailed,                \* the calls of OTLPAdapter.export that logged a failure
    otNow,                   \* Date.now() for the OTLPAdapter, in ms
    pgBatchSize,             \* PostgresTraceAdapter.batchSize
    pgBuffer,                \* PostgresTraceAdapter.buffer
    pgFlushTimer,            \* PostgresTraceAdapter.flushTimer is an interval (not null)
    pgInserts,               \* the calls of performBatchInsert, in order, each with its
                             \* events and the state of its query
    pgExports,               \* history: the number of calls of export
    pgShutdownAt,            \* history: the number of exports before shutdown(), if called
    pgLast                   \* history: the last operation and the buffer before it

config == <<logFields, redactMode, userMode, hasOrigOnMessage, origMode, sinkMode,
            options, constructed, thrown, attachCount>>

mwVars == <<config, pendingRequests, pendingRequestTimeouts, timers, nextHandle,
            exported, unhandled, unsettled, evicted, clock, steps, last>>

maCtlVars == <<maOptional, maCtl, maInvoked>>
maVars == <<maAdapters, maCalls, maReceived, maCtlVars>>

cxVars == <<cxBufferSize, cxMaxRetries, cxBuffer, cxIsRunning, cxStop, cxWorker,
            cxFlush, cxSends, cxDelivered, cxLog, cxExports, cxShifted,
            cxAttempts, cxDropped, cxLast>>

otVars == <<otInstalled, otSpans, otFailed, otNow>>

pgVars == <<pgBatchSize, pgBuffer, pgFlushTimer, pgInserts, pgExports, pgShutdownAt,
            pgLast>>

sinkVars == <<otVars, pgVars>>

vars == <<mwVars, maVars, cxVars, sinkVars>>

----------------------------------------------------------------------------
(* Bounds of the model *)

MaxSteps == 3

\* the most sinks a MultiAdapter is built with, and the most calls of its export
MaxSinks == 3

MaxCalls == 2

\* the most calls of a MultiAdapter's flush and shutdown together
MaxOptionalCalls == 1

\* the largest bufferSize a ContexaTraceAdapter is built with, and the most
\* calls of its export
MaxBufferSize == 2

MaxExports == 2

\* the timeout, in ms, flush and shutdown are called with
FlushTimeoutMs == 1500

\* the time between two events, in ms
DelayMs == 10

\* the most calls of OTLPAdapter.export
MaxSpans == 2

\* the largest batchSize a PostgresTraceAdapter is built with, and the most
\* calls of its export
MaxBatchSize == 2

MaxRecords == 3

(* Program constants *)

EvictionMs == 300000

----------------------------------------------------------------------------
(* JavaScript values *)

None == <<>>
Some(v) == <<v>>
IsSome(o) == Len(o) = 1

\* JavaScript truthiness of an optional string: undefined and "" are falsy
Truthy(o) == IsSome(o) /\ o[1] # ""

\* a || b on optional strings
OrElse(a, b) == IF Truthy(a) THEN a ELSE b

\* obj[key], undefined when the key is absent
GetF(obj, k) == IF k \in DOMAIN obj THEN obj[k] ELSE None

\* map.delete(k)
MapDelete(m, k) == [x \in DOMAIN m \ {k} |-> m[x]]

\* variant: an entry that is there is kept
MapSetIfAbsent(m, k, v) ==
    [x \in DOMAIN m \cup {k} |-> IF x \in DOMAIN m THEN m[x] ELSE v]

\* map.set(k, v)
MapSet(m, k, v) == [x \in DOMAIN m \cup {k} |-> IF x = k THEN v ELSE m[x]]

EmptyMap == [x \in {} |-> None]

----------------------------------------------------------------------------
(* The inputs: messages, side-channel headers, transports *)

Transports == {"t1", "t2"}

\* transport.sessionId: t2 is a transport without session state
TransportSessionId(t) == IF t = "t1" THEN Some("ts1") ELSE None

\* A payload tree. red counts the applications of the redaction function
Payload(v, name) == [val |-> v, name |-> name, red |-> 0]

NoHeaders ==
    [sid |-> None, ua |-> None, xff |-> None, realip |-> None, cf |-> None,
     clientip |-> None, remote |-> None, ignore |-> None, user |-> None]

Msg(id, method, params, result, error) ==
    [id |-> id, method |-> method, params |-> params, result |-> result, error |-> error]

RequestMsgs ==
    { Msg(Some(1), Some("tools/call"), Some(Payload("args", Some("add"))), None, None),
      Msg(Some(2), Some("ping"), None, None, None) }

NotificationMsgs ==
    { Msg(None, Some("notifications/progress"), Some(Payload("prog", None)), None, None) }

ResponseMsgs ==
    { Msg(Some(1), None, None, Some(Payload("sum3", None)), None),
      Msg(Some(1), None, None, None, Some([code |-> -32000, message |-> "boom"])),
      Msg(Some(2), None, None, Some(Payload("pong", None)), None) }

\* a message that is neither request nor notification nor response
OtherMsg == Msg(None, None, None, None, None)

\* inbound: requests, notifications, and a message the middleware ignores
InboundMsgs == RequestMsgs \cup NotificationMsgs \cup {OtherMsg}

\* outbound: responses, notifications, and a request of the server to the
\* client, which the middleware ignores
OutboundMsgs ==
    ResponseMsgs \cup NotificationMsgs
    \cup { Msg(Some(1), Some("ping"), None, None, None) }

\* the side channel a message arrives with: its transport and its extra
Channels ==
    { [tr |-> "t1", extra |-> None],
      [tr |-> "t1",
       extra |-> Some([NoHeaders EXCEPT !.sid = Some("hs1"), !.ua = Some("agent"),
                                        !.xff = Some(<<"10.0.0.1", "10.0.0.2">>),
                                        !.user = Some("u1")])],
      [tr |-> "t2",
       extra |-> Some([NoHeaders EXCEPT !.realip = Some("10.0.0.3"),
                                        !.ignore = Some("true")])] }

----------------------------------------------------------------------------
(* TraceMiddleware: construction *)

DefaultLogFields ==
    [k \in {"type", "method", "timestamp", "session_id", "client_id", "duration",
            "entity_name", "arguments", "response", "error"} |-> TRUE]

\* { ...defaults, ...options.logFields }
MergeLogFields(defaults, given) ==
    [k \in DOMAIN defaults \cup DOMAIN given |->
        IF k \in DOMAIN given THEN given[k] ELSE defaults[k]]

\* options.logFields as the caller may pass it: the names it sets to false
OptionsLogFields(disabled) == [k \in disabled |-> FALSE]

----------------------------------------------------------------------------
(* TraceMiddleware: type guards *)

isJSONRPCRequest(message) == IsSome(message.method) /\ IsSome(message.id)

isJSONRPCResponse(message) ==
    IsSome(message.id) /\ (IsSome(message.result) \/ IsSome(message.error))

isJSONRPCNotification(message) == IsSome(message.method) /\ ~ IsSome(message.id)

----------------------------------------------------------------------------
(* TraceMiddleware: building a record *)

\* the user's redaction function: it transforms the payload (and is not the identity)
Redact(p) == [p EXCEPT !.red = @ + 1]

LogRedaction == "warn: Error applying redaction function"
LogUser == "warn: Error extracting user information"

\* variant: a payload whose redaction throws is left out of the record
redactionErrorDropsPayload(data) ==
    IF redactMode = "none" \/ ~ IsSome(data)
    THEN [v |-> data, logs |-> <<>>]
    ELSE IF redactMode = "throws"
         THEN [v |-> None, logs |-> <<LogRedaction>>]
         ELSE [v |-> Some(Redact(data[1])), logs |-> <<>>]

\* [v |-> the payload to put in the record, logs |-> what was logged]
applyRedaction(data) ==
    IF redactMode = "none" \/ ~ IsSome(data)
    THEN [v |-> data, logs |-> <<>>]
    ELSE IF redactMode = "throws"
         THEN [v |-> data, logs |-> <<LogRedaction>>]
         ELSE [v |-> Some(Redact(data[1])), logs |-> <<>>]

getIpAddress(extra) ==
    IF ~ IsSome(extra) THEN None
    ELSE LET h == extra[1] IN
         IF IsSome(h.xff) THEN Some(h.xff[1][1])
         ELSE IF Truthy(h.realip) THEN h.realip
         ELSE IF Truthy(h.cf) THEN h.cf
         ELSE IF Truthy(h.clientip) THEN h.clientip
         ELSE IF Truthy(h.remote) THEN h.remote
         ELSE None

NoUser == [user_id |-> None, user_name |-> None, user_email |-> None]

\* the user's identity function: a user when the identity header is there
IdentifyUser(headers) ==
    IF IsSome(headers.user)
    THEN [user_id |-> headers.user, user_name |-> Some("name"), user_email |-> Some("mail")]
    ELSE NoUser

getUserInfo(extra) ==
    IF userMode = "none" \/ ~ IsSome(extra)
    THEN [user |-> NoUser, logs |-> <<>>]
    ELSE IF userMode = "throws"
         THEN [user |-> NoUser, logs |-> <<LogUser>>]
         ELSE [user |-> IdentifyUser(extra[1]), logs |-> <<>>]

\* message._meta?.clientId || message.clientId || message.context?.clientId:
\* the messages of the model carry none of the three
extractClientId(message) == None

\* this.logFields[key] === false
LogFieldDisabled(k) == k \in DOMAIN logFields /\ logFields[k] = FALSE

\* variant: no field is removed
keepsAllFields(traceData) == traceData

filterTraceData(traceData) ==
    [k \in {f \in DOMAIN traceData : ~ LogFieldDisabled(f)} |-> traceData[k]]

ErrorSummary(e) == <<e.code, ": ", e.message>>

\* variant: every record is of type request
typeAlwaysRequest(message) == "request"

\* the type createTraceData gives a record
traceType(message) ==
    IF Truthy(message.method) /\ ~ IsSome(message.id) THEN "notification" ELSE "request"

\* createTraceData(message, extra, transport) at time now; transport is optional
\* [data |-> the filtered record, logs |-> what was logged]
createTraceData(message, extra, transport, now) ==
    LET type == traceType(message)
        method == IF Truthy(message.method) THEN message.method ELSE None
        entityName ==
            IF IsSome(method) /\ method[1] \in {"tools/call", "prompts/get", "resources/read"}
            THEN (IF IsSome(message.params) /\ Truthy(message.params[1].name)
                  THEN message.params[1].name[1] ELSE "")
            ELSE ""
        sessionIdHeader == IF IsSome(extra) THEN extra[1].sid ELSE None
        sessionIdFromTransport ==
            IF IsSome(transport) THEN TransportSessionId(transport[1]) ELSE None
        userAgentHeader == IF IsSome(extra) THEN extra[1].ua ELSE None
        sessionId == OrElse(sessionIdHeader, OrElse(sessionIdFromTransport, Some("")))
        clientId == OrElse(extractClientId(message), OrElse(userAgentHeader, None))
        ipAddress == getIpAddress(extra)
        userInfo == getUserInfo(extra)
        req == applyRedaction(message.params)
        res == applyRedaction(message.result)
        traceData ==
            [type |-> Some(type),
             method |-> method,
             timestamp |-> Some(now),
             session_id |-> sessionId,
             client_id |-> clientId,
             duration |-> None,
             entity_name |-> Some(entityName),
             request |-> req.v,
             response |-> res.v,
             error |-> IF IsSome(message.error)
                       THEN Some(ErrorSummary(message.error[1])) ELSE None,
             ip_address |-> ipAddress,
             user_id |-> userInfo.user.user_id,
             user_name |-> userInfo.user.user_name,
             user_email |-> userInfo.user.user_email]
    IN [data |-> filterTraceData(traceData),
        logs |-> userInfo.logs \o req.logs \o res.logs]

\* variant: the combined record is built from the response alone
combinedFromResponseOnly(requestData, responseMessage, duration, now) ==
    createTraceData(responseMessage, None, None, now)

createCombinedTraceData(requestData, responseMessage, duration, now) ==
    LET req == applyRedaction(GetF(requestData, "request"))
        res == applyRedaction(responseMessage.result)
        combinedTraceData ==
            [type |-> Some("request"),
             method |-> GetF(requestData, "method"),
             timestamp |-> Some(now),
             session_id |-> GetF(requestData, "session_id"),
             client_id |-> GetF(requestData, "client_id"),
             duration |-> Some(duration),
             entity_name |-> GetF(requestData, "entity_name"),
             request |-> req.v,
             response |-> res.v,
             user_id |-> GetF(requestData, "user_id"),
             user_name |-> GetF(requestData, "user_name"),
             user_email |-> GetF(requestData, "user_email")]
    IN [data |-> filterTraceData(combinedTraceData), logs |-> req.logs \o res.logs]

----------------------------------------------------------------------------
(* TraceMiddleware: the handlers.  A handler maps the state of one step (a *)
(* record st: the middleware's tables, the time st.now of the step, and    *)
(* st.events, what the step has done so far, in order) to the state after  *)
(* the handler.  st.threw says that an exception is propagating.           *)

MwState(now) ==
    [pendingRequests |-> pendingRequests,
     pendingRequestTimeouts |-> pendingRequestTimeouts,
     timers |-> timers,
     nextHandle |-> nextHandle,
     exported |-> exported,
     unhandled |-> unhandled,
     unsettled |-> unsettled,
     evicted |-> evicted,
     now |-> now,
     events |-> <<>>,
     raised |-> FALSE,     \* an exception left the wrapper
     threw |-> FALSE]

\* the events of a step: a line logged, a call of adapter.export, a call of
\* the original hook with a message
LogEvent(text) == [e |-> "log", text |-> text, msg |-> OtherMsg]
ExportEvent(kind) == [e |-> "export", text |-> kind, msg |-> OtherMsg]
OrigEvent(message) == [e |-> "orig", text |-> "", msg |-> message]

LogEvents(texts) == [k \in 1..Len(texts) |-> LogEvent(texts[k])]

\* this.log(level, message) and console.error(message)
log(st, text) == [st EXCEPT !.events = Append(@, LogEvent(text))]

\* this.adapter.export(traceData); the caller drops the returned promise.
\* kind and req note the path that made the call and the timer handle of the
\* pending request it consumed (0: none)
adapterExport(st, data, kind, req) ==
    [st EXCEPT !.exported = Append(@, [data |-> data, kind |-> kind, req |-> req,
                                       at |-> st.now]),
               !.events = Append(@, ExportEvent(kind)),
               !.unhandled = IF sinkMode = "reject" THEN @ + 1 ELSE @,
               !.unsettled = IF sinkMode \in {"slow", "hang"} THEN @ + 1 ELSE @,
               !.threw = (sinkMode = "throw")]

\* a catch block that logs and swallows
Caught(st, text) ==
    IF st.threw THEN log([st EXCEPT !.threw = FALSE], text) ELSE st

\* clearTimeout(handle)
clearTimeout(ts, handle) == {t \in ts : t.h # handle}

\* variant: the request's own record is exported when the request arrives
exportsEveryRequest(message) == Truthy(message.method)

\* the condition under which handleRequest exports the request's own record
exportsAtRequest(message) == Truthy(message.method) /\ ~ IsSome(message.id)

\* Date.now() - pending.startTime
durationOf(now, startTime) == now - startTime

handleRequest(st, message, extra, transport) ==
    LET id == message.id[1]
        td == createTraceData(message, extra, Some(transport), st.now)
        s1 == [st EXCEPT
                !.events = @ \o LogEvents(td.logs),
                !.pendingRequests =
                    MapSet(@, id, [startTime |-> st.now, requestData |-> td.data,
                                   requestExtra |-> extra, transport |-> transport]),
                !.timers = @ \cup {[h |-> st.nextHandle, id |-> id,
                                    due |-> st.now + EvictionMs]},
                !.pendingRequestTimeouts = MapSet(@, id, st.nextHandle),
                !.nextHandle = @ + 1]
    IN Caught(IF exportsAtRequest(message)
              THEN adapterExport(s1, td.data, "request", 0)
              ELSE s1,
              "error: Error handling request")

\* handleOutgoingResponse when the id has a pending entry
resolvePending(st, message, id) ==
    LET pending == st.pendingRequests[id]
        duration == durationOf(st.now, pending.startTime)
        c == createCombinedTraceData(pending.requestData, message, duration, st.now)
        handle == IF id \in DOMAIN st.pendingRequestTimeouts
                  THEN st.pendingRequestTimeouts[id] ELSE 0
        s1 == adapterExport([st EXCEPT !.events = @ \o LogEvents(c.logs)], c.data,
                            "combined", handle)
    IN IF s1.threw
       THEN s1
       ELSE [s1 EXCEPT
               !.pendingRequests = MapDelete(@, id),
               !.timers = IF id \in DOMAIN st.pendingRequestTimeouts
                          THEN clearTimeout(@, st.pendingRequestTimeouts[id])
                          ELSE @,
               !.pendingRequestTimeouts = MapDelete(@, id)]

\* variant: a response with no pending entry is ignored
dropsUnmatched(st, message, transport) == st

\* handleOutgoingResponse when the id has no pending entry
exportStandalone(st, message, transport) ==
    LET td == createTraceData(message, None, Some(transport), st.now)
    IN adapterExport([st EXCEPT !.events = @ \o LogEvents(td.logs)], td.data,
                     "standalone", 0)

handleOutgoingResponse(st, message, transport) ==
    Caught(IF message.id[1] \in DOMAIN st.pendingRequests
           THEN resolvePending(st, message, message.id[1])
           ELSE exportStandalone(st, message, transport),
           "error: Error handling outgoing response")

logMessage(st, message, extra) ==
    LET td == createTraceData(message, extra, None, st.now)
    IN Caught(adapterExport([st EXCEPT !.events = @ \o LogEvents(td.logs)], td.data,
                            "notification", 0),
              "TraceMiddleware logging failed:")

handleIncomingMessage(st, message, extra, transport) ==
    Caught(IF isJSONRPCRequest(message)
           THEN handleRequest(st, message, extra, transport)
           ELSE IF isJSONRPCNotification(message)
                THEN logMessage(st, message, extra)
                ELSE st,
           "error: Error handling incoming message")

handleOutgoingMessage(st, message, transport) ==
    Caught(IF isJSONRPCResponse(message)
           THEN handleOutgoingResponse(st, message, transport)
           ELSE IF isJSONRPCNotification(message)
                THEN logMessage(st, message, None)
                ELSE st,
           "error: Error handling outgoing message")

\* variant: the original hook is called once the promises of the step's
\* exports have settled, that is, not in this step when one is pending
callOriginalAwaitingExport(st, present, message) ==
    IF ~ present \/ st.unsettled > unsettled THEN st
    ELSE [st EXCEPT !.events = Append(@, OrigEvent(message)),
                    !.threw = (origMode = "throw")]

\* one call of the original hook, when there is one
callOriginal(st, present, message) ==
    IF ~ present THEN st
    ELSE [st EXCEPT !.events = Append(@, OrigEvent(message)),
                    !.threw = (origMode = "throw")]

\* variant: the wrapper traces and does not call the original hook
wrappedTracingOnly(traced, present, message, logText) ==
    [traced EXCEPT !.threw = FALSE]

\* try { trace; original } catch { log; original }: the wrappers installed
\* by handle().  An exception of the second call of the original reaches
\* the caller
wrapped(traced, present, message, logText) ==
    LET s1 == IF traced.threw THEN traced ELSE callOriginal(traced, present, message)
    IN IF s1.threw
       THEN LET s2 == callOriginal(Caught(s1, logText), present, message)
            IN [s2 EXCEPT !.raised = s2.threw, !.threw = FALSE]
       ELSE s1

\* transport.onmessage = (message, extra) => ...
onmessage(st, message, extra, transport) ==
    wrapped(handleIncomingMessage(st, message, extra, transport),
            hasOrigOnMessage, message, "error: Error in onmessage handler")

\* transport.send = async (message, options) => ...
send(st, message, transport) ==
    wrapped(handleOutgoingMessage(st, message, transport),
            TRUE, message, "error: Error in send handler")

\* transport.onmessage after handle(transport) has run twice: the original
\* hook of the second wrapper is the first wrapper, which traces the message
\* again; an exception that leaves the first wrapper is caught by the second,
\* which logs and calls the first wrapper again
onmessageTwice(st, message, extra, transport) ==
    LET traced == handleIncomingMessage(st, message, extra, transport)
        s1 == IF traced.threw THEN traced
              ELSE onmessage(traced, message, extra, transport)
    IN IF s1.threw \/ s1.raised
       THEN onmessage(Caught([s1 EXCEPT !.threw = TRUE, !.raised = FALSE],
                             "error: Error in onmessage handler"),
                      message, extra, transport)
       ELSE s1

\* transport.send after handle(transport) has run twice: originalSend of the
\* second wrapper is the first wrapper, an async function: it traces the
\* message again, and its exception is the rejection of the promise the
\* second wrapper returns
sendTwice(st, message, transport) ==
    LET traced == handleOutgoingMessage(st, message, transport)
    IN send(Caught(traced, "error: Error in send handler"), message, transport)

\* the hooks of a transport after attachCount calls of handle(transport)
installedOnMessage(st, message, extra, transport) ==
    IF attachCount = 1 THEN onmessage(st, message, extra, transport)
    ELSE onmessageTwice(st, message, extra, transport)

installedSend(st, message, transport) ==
    IF attachCount = 1 THEN send(st, message, transport)
    ELSE sendTwice(st, message, transport)

\* variant: the timer goes and the pending entry stays
evictionKeepsEntry(st, tm) == [st EXCEPT !.timers = @ \ {tm}]

\* the callback of the eviction timer tm
evictionCallback(st, tm) ==
    LET unanswered ==
            IF /\ tm.id \in DOMAIN st.pendingRequests
               /\ tm.id \in DOMAIN st.pendingRequestTimeouts
               /\ \A k \in 1..Len(st.exported) :
                     st.exported[k].req # st.pendingRequestTimeouts[tm.id]
            THEN {st.pendingRequestTimeouts[tm.id]} ELSE {}
    IN [st EXCEPT !.pendingRequests = MapDelete(@, tm.id),
                  !.pendingRequestTimeouts = MapDelete(@, tm.id),
                  !.timers = @ \ {tm},
                  !.evicted = @ \cup unanswered]

\* variant: the pending table is cleared and the timer table is left
cleanupKeepsHandles(st) == [st EXCEPT !.pendingRequests = EmptyMap]

\* cleanup(), called by shutdown(): clears the timeouts the table holds
cleanup(st) ==
    [st EXCEPT !.pendingRequests = EmptyMap,
               !.timers = {t \in @ : \A i \in DOMAIN st.pendingRequestTimeouts :
                                        st.pendingRequestTimeouts[i] # t.h},
               !.pendingRequestTimeouts = EmptyMap]

----------------------------------------------------------------------------
(* MultiAdapter *)

\* how a sink's export behaves: it resolves, it throws synchronously, or the
\* promise it returns rejects
SinkModes == {"ok", "throw", "reject"}

Records == {"r1", "r2"}

RECURSIVE SeqsUpTo(_, _)
SeqsUpTo(S, n) ==
    IF n = 0 THEN {<<>>}
    ELSE LET shorter == SeqsUpTo(S, n - 1)
         IN shorter \cup {Append(q, x) : q \in {r \in shorter : Len(r) = n - 1}, x \in S}

\* console.error(`[MultiAdapter] export failed for adapter #${index + 1}:`, error)
ExportFailed(index, call) == [index |-> index, call |-> call]

\* the async arrow function given to map, up to its await: the sink's export
\* is called; a synchronous throw is caught and logged
exportWrapper(mode, index, call) ==
    IF mode = "throw"
    THEN [invoked |-> TRUE, state |-> "fulfilled", logs |-> <<ExportFailed(index, call)>>]
    ELSE [invoked |-> TRUE, state |-> "awaiting", logs |-> <<>>]

\* variant: the sinks are called one after the other and the first throw ends
\* the loop
mapAdaptersFailFast(adapters, call) ==
    [i \in 1..Len(adapters) |->
        IF \E j \in 1..(i - 1) : adapters[j] = "throw"
        THEN [invoked |-> FALSE, state |-> "fulfilled", logs |-> <<>>]
        ELSE exportWrapper(adapters[i], i, call)]

\* this.adapters.map(async (adapter, index) => ...)
mapAdapters(adapters, call) ==
    [i \in 1..Len(adapters) |-> exportWrapper(adapters[i], i, call)]

\* the arrow function after its await: a rejection is caught and logged
resumeWrapper(mode, index, call) ==
    IF mode = "reject"
    THEN [invoked |-> TRUE, state |-> "fulfilled", logs |-> <<ExportFailed(index, call)>>]
    ELSE [invoked |-> TRUE, state |-> "fulfilled", logs |-> <<>>]

\* variant: settled as soon as one of the promises is
firstSettled(wrappers) ==
    IF \E i \in 1..Len(wrappers) : wrappers[i].state # "awaiting"
    THEN "fulfilled" ELSE "pending"

\* Promise.allSettled(promises): settled, and never rejected, once all are
allSettled(wrappers) ==
    IF \A i \in 1..Len(wrappers) : wrappers[i].state # "awaiting"
    THEN "fulfilled" ELSE "pending"

\* what a sink's optional flush or shutdown property is: not there, there but
\* not a function, or a function that resolves, throws synchronously, or
\* returns a promise that rejects
OptionalModes == {"absent", "notFunction", "ok", "throw", "reject"}

\* the sinks a MultiAdapter is built from, by their optional methods
SinkKinds ==
    { [flush |-> "absent", shutdown |-> "absent"],
      [flush |-> "ok", shutdown |-> "ok"],
      [flush |-> "throw", shutdown |-> "reject"],
      [flush |-> "reject", shutdown |-> "throw"],
      [flush |-> "notFunction", shutdown |-> "ok"],
      [flush |-> "ok", shutdown |-> "notFunction"] }

ExportOnly == [flush |-> "absent", shutdown |-> "absent"]

\* variant: adapter.flush is tested for truthiness
isTruthy(mode) == mode # "absent"

\* typeof adapter.flush === 'function'
isFunction(mode) == mode \in {"ok", "throw", "reject"}

\* flush(timeout) passes its argument on, shutdown() passes none
ArgsOf(method, timeout) == IF method = "flush" THEN <<timeout>> ELSE <<>>

\* console.error(`[MultiAdapter] flush failed for adapter #${index + 1}:`, error)
MethodFailed(method, index, call) == [method |-> method, index |-> index, call |-> call]

\* the async arrow function of flush and shutdown, up to its await: a sink
\* without the method is skipped; a synchronous throw is caught and logged
optionalWrapper(method, mode, index, call) ==
    IF ~ isFunction(mode)
    THEN [invoked |-> FALSE, state |-> "fulfilled", logs |-> <<>>]
    ELSE IF mode = "throw"
    THEN [invoked |-> TRUE, state |-> "fulfilled",
          logs |-> <<MethodFailed(method, index, call)>>]
    ELSE [invoked |-> TRUE, state |-> "awaiting", logs |-> <<>>]

\* the arrow function after its await: a rejection is caught and logged
resumeOptional(method, mode, index, call) ==
    IF mode = "reject"
    THEN [invoked |-> TRUE, state |-> "fulfilled",
          logs |-> <<MethodFailed(method, index, call)>>]
    ELSE [invoked |-> TRUE, state |-> "fulfilled", logs |-> <<>>]

\* new MultiAdapter(...adapters), the sinks given with their optional methods
MultiConstructWith(adapters, optional) ==
    /\ maAdapters = adapters
    /\ maCalls = <<>>
    /\ maReceived = [i \in 1..Len(adapters) |-> <<>>]
    /\ maOptional = optional
    /\ maCtl = <<>>
    /\ maInvoked = [i \in 1..Len(adapters) |-> <<>>]

\* new MultiAdapter(...adapters), the sinks implementing export only
MultiConstruct(adapters) ==
    MultiConstructWith(adapters, [i \in 1..Len(adapters) |-> ExportOnly])

\* MultiAdapter.export(traceData), up to its await
MultiExport(rec) ==
    /\ Len(maCalls) < MaxCalls
    /\ LET call == Len(maCalls) + 1
           wrappers == mapAdapters(maAdapters, call)
       IN /\ maCalls' = Append(maCalls, [rec |-> rec, wrappers |-> wrappers,
                                         result |-> "pending"])
          /\ maReceived' = [i \in 1..Len(maAdapters) |->
                              IF wrappers[i].invoked
                              THEN Append(maReceived[i], rec) ELSE maReceived[i]]
    /\ UNCHANGED <<maAdapters, maCtlVars, mwVars, cxVars, sinkVars>>

\* the promise of sink i settles for call c
MultiSinkSettles(c, i) ==
    /\ c \in 1..Len(maCalls)
    /\ i \in 1..Len(maCalls[c].wrappers)
    /\ maCalls[c].wrappers[i].state = "awaiting"
    /\ maCalls' = [maCalls EXCEPT ![c].wrappers[i] = resumeWrapper(maAdapters[i], i, c)]
    /\ UNCHANGED <<maAdapters, maReceived, maCtlVars, mwVars, cxVars, sinkVars>>

\* the promise MultiAdapter.export returned settles
MultiExportReturns(c) ==
    /\ c \in 1..Len(maCalls)
    /\ maCalls[c].result = "pending"
    /\ allSettled(maCalls[c].wrappers) # "pending"
    /\ maCalls' = [maCalls EXCEPT ![c].result = allSettled(maCalls[c].wrappers)]
    /\ UNCHANGED <<maAdapters, maReceived, maCtlVars, mwVars, cxVars, sinkVars>>

MultiNext ==
    \/ \E rec \in Records : MultiExport(rec)
    \/ \E c \in 1..MaxCalls, i \in 1..MaxSinks : MultiSinkSettles(c, i)
    \/ \E c \in 1..MaxCalls : MultiExportReturns(c)

\* the timeout flush and shutdown are called with: none, or FlushTimeoutMs
TimeoutChoices == {None, Some(FlushTimeoutMs)}

\* the body flush(timeout) and shutdown() share, up to their await
MultiOptional(method, timeout) ==
    /\ LET call == Len(maCtl) + 1
           args == ArgsOf(method, timeout)
           wrappers == [i \in 1..Len(maAdapters) |->
                          optionalWrapper(method, maOptional[i][method], i, call)]
       IN /\ maCtl' = Append(maCtl, [method |-> method, timeout |-> timeout,
                                     wrappers |-> wrappers, result |-> "pending"])
          /\ maInvoked' = [i \in 1..Len(maAdapters) |->
                             IF wrappers[i].invoked
                             THEN Append(maInvoked[i], [method |-> method, args |-> args])
                             ELSE maInvoked[i]]
    /\ UNCHANGED <<maAdapters, maCalls, maReceived, maOptional, mwVars, cxVars, sinkVars>>

\* MultiAdapter.flush(timeout)
MultiFlush(timeout) ==
    /\ Len(maCtl) < MaxOptionalCalls
    /\ MultiOptional("flush", timeout)

\* MultiAdapter.shutdown()
MultiShutdown ==
    /\ Len(maCtl) < MaxOptionalCalls
    /\ MultiOptional("shutdown", None)

\* the promise of sink i's flush or shutdown settles for call c
MultiOptionalSettles(c, i) ==
    /\ c \in 1..Len(maCtl)
    /\ i \in 1..Len(maCtl[c].wrappers)
    /\ maCtl[c].wrappers[i].state = "awaiting"
    /\ maCtl' = [maCtl EXCEPT ![c].wrappers[i] =
                    resumeOptional(maCtl[c].method, maOptional[i][maCtl[c].method], i, c)]
    /\ UNCHANGED <<maAdapters, maCalls, maReceived, maOptional, maInvoked, mwVars, cxVars, sinkVars>>

\* the promise MultiAdapter.flush or shutdown returned settles
MultiOptionalReturns(c) ==
    /\ c \in 1..Len(maCtl)
    /\ maCtl[c].result = "pending"
    /\ allSettled(maCtl[c].wrappers) # "pending"
    /\ maCtl' = [maCtl EXCEPT ![c].result = allSettled(maCtl[c].wrappers)]
    /\ UNCHANGED <<maAdapters, maCalls, maReceived, maOptional, maInvoked, mwVars, cxVars, sinkVars>>

MultiOptionalNext ==
    \/ \E timeout \in TimeoutChoices : MultiFlush(timeout)
    \/ MultiShutdown
    \/ \E c \in 1..MaxOptionalCalls, i \in 1..MaxSinks : MultiOptionalSettles(c, i)
    \/ \E c \in 1..MaxOptionalCalls : MultiOptionalReturns(c)

----------------------------------------------------------------------------
(* ContexaTraceAdapter *)

\* the values of config.maxRetries the adapter is built with
RetryChoices == {1, 2}

\* config.bufferSize ?? 1000 and config.maxRetries ?? 3
DefaultBufferSize == 1000

DefaultMaxRetries == 3

\* config.flushInterval ?? 1000 and config.retryDelay ?? 2000, in ms
FlushIntervalMs == 1000

RetryDelayMs == 2000

BufferFull == "Buffer full - event dropped."
ServerOrNetworkError == "Server error or network error"
MaxRetriesExceeded == "Max retries exceeded - event dropped."
FlushTimeoutReached == "Flush timeout reached - events left"

\* console.warn / console.error: the log counts the lines of each text
LogTexts == {BufferFull, ServerOrNetworkError, MaxRetriesExceeded, FlushTimeoutReached}

EmptyLog == [t \in LogTexts |-> 0]

logLine(lines, text) == [lines EXCEPT ![text] = @ + 1]

\* no call of flush yet
FlushIdle ==
    [state |-> "idle", by |-> "none", elapsed |-> 0, timeout |-> None, timedOut |-> FALSE,
     upto |-> 0]

\* the adapter's fields and the history, and the time the step has taken
Cx ==
    [buffer |-> cxBuffer, isRunning |-> cxIsRunning, stop |-> cxStop,
     worker |-> cxWorker, flush |-> cxFlush, sends |-> cxSends,
     delivered |-> cxDelivered, log |-> cxLog, shifted |-> cxShifted,
     attempts |-> cxAttempts, dropped |-> cxDropped, took |-> 0]

\* ms pass: Date.now() - start grows by ms for a flush that is running and
\* was given a timeout (no other reads the time)
elapse(cx, ms) ==
    [cx EXCEPT !.took = @ + ms,
               !.flush.elapsed = IF cx.flush.state = "running" /\ IsSome(cx.flush.timeout)
                                 THEN @ + ms ELSE @]

\* variant: the buffer takes every record
hasRoomAlways(buffer, bufferSize) == TRUE

\* variant: the buffer takes one record more than bufferSize
hasRoomInclusive(buffer, bufferSize) == Len(buffer) <= bufferSize

\* this.buffer.length < this.bufferSize
hasRoom(buffer, bufferSize) == Len(buffer) < bufferSize

\* variant: the interval is set unless running
startWorkerAfterStop(cx) ==
    IF cx.isRunning THEN cx
    ELSE [cx EXCEPT !.isRunning = TRUE, !.worker = TRUE]

\* startWorker(): the interval is set unless running or stopped
startWorker(cx) ==
    IF cx.isRunning \/ cx.stop THEN cx
    ELSE [cx EXCEPT !.isRunning = TRUE, !.worker = TRUE]

\* variant: the interval is cleared and isRunning is left set
stopWorkerKeepsFlag(cx) == [cx EXCEPT !.worker = FALSE]

\* variant: the interval is not cleared
stopWorkerKeepsInterval(cx) == [cx EXCEPT !.isRunning = FALSE]

\* stopWorker()
stopWorker(cx) == [cx EXCEPT !.worker = FALSE, !.isRunning = FALSE]

\* export(traceData)
export(cx, traceData) ==
    IF hasRoom(cx.buffer, cxBufferSize)
    THEN startWorker([cx EXCEPT !.buffer = Append(@, traceData)])
    ELSE [cx EXCEPT !.log = logLine(@, BufferFull)]

\* sendEventWithRetry(event) begins: its first fetch is in flight
sendEventWithRetry(cx, event, by) ==
    [cx EXCEPT !.sends = @ \cup {[event |-> event, attempt |-> 1, by |-> by]},
               !.attempts[event] = @ + 1]

\* the interval's callback, flushInterval after the one before
workerTick(cx) ==
    LET c == elapse(cx, FlushIntervalMs)
    IN IF c.stop THEN c
       ELSE IF c.buffer = <<>> THEN stopWorker(c)
       ELSE sendEventWithRetry([c EXCEPT !.buffer = Tail(@),
                                         !.shifted = Append(@, Head(c.buffer))],
                               Head(c.buffer), "worker")

\* variant: one attempt more than maxRetries
retriesLeftInclusive(attempt, maxRetries) == attempt <= maxRetries

\* attempt <= this.maxRetries, after attempt++
retriesLeft(attempt, maxRetries) == attempt < maxRetries

\* the fetch of a send returns: ok, or an error (a status that is not ok, or
\* an exception), which is logged; then retryDelay passes and the next
\* attempt is made, up to maxRetries attempts
fetchReturns(cx, sending, ok) ==
    IF ok
    THEN [cx EXCEPT !.sends = @ \ {sending}, !.delivered = Append(@, sending.event)]
    ELSE IF retriesLeft(sending.attempt, cxMaxRetries)
    THEN elapse([cx EXCEPT
                    !.sends = (@ \ {sending}) \cup {[sending EXCEPT !.attempt = @ + 1]},
                    !.log = logLine(@, ServerOrNetworkError),
                    !.attempts[sending.event] = @ + 1],
                RetryDelayMs)
    ELSE elapse([cx EXCEPT !.sends = @ \ {sending},
                           !.log = logLine(logLine(@, ServerOrNetworkError),
                                           MaxRetriesExceeded),
                           !.dropped = @ \cup {sending.event}],
                RetryDelayMs)

\* timeout && Date.now() - start > timeout
timeoutHit(timeout, elapsed) ==
    IsSome(timeout) /\ timeout[1] # 0 /\ elapsed > timeout[1]

\* one turn of the loop of flush()
flushLoop(cx) ==
    IF cx.buffer = <<>> THEN [cx EXCEPT !.flush.state = "done"]
    ELSE IF timeoutHit(cx.flush.timeout, cx.flush.elapsed)
    THEN [cx EXCEPT !.flush.state = "done", !.flush.timedOut = TRUE,
                    !.log = logLine(@, FlushTimeoutReached)]
    ELSE sendEventWithRetry([cx EXCEPT !.buffer = Tail(@),
                                       !.shifted = Append(@, Head(cx.buffer))],
                            Head(cx.buffer), "flush")

\* flush(timeout), up to its first await or its return
flush(cx, timeout, by) ==
    flushLoop([cx EXCEPT !.flush = [state |-> "running", by |-> by, elapsed |-> 0,
                                    timeout |-> timeout, timedOut |-> FALSE,
                                    upto |-> cxExports]])

\* shutdown(wait, timeout), up to its first await or its return
shutdown(cx, wait, timeout) ==
    LET stopped == stopWorker([cx EXCEPT !.stop = TRUE])
    IN IF wait THEN flush(stopped, timeout, "shutdown") ELSE stopped

\* the operation op, called with rec, leaves the adapter's fields as cx
CxStep(op, rec, cx) ==
    /\ cxBuffer' = cx.buffer
    /\ cxIsRunning' = cx.isRunning
    /\ cxStop' = cx.stop
    /\ cxWorker' = cx.worker
    /\ cxFlush' = cx.flush
    /\ cxSends' = cx.sends
    /\ cxDelivered' = cx.delivered
    /\ cxLog' = cx.log
    /\ cxShifted' = cx.shifted
    /\ cxAttempts' = cx.attempts
    /\ cxDropped' = cx.dropped
    /\ cxLast' = [op |-> op, rec |-> rec, buffer |-> cxBuffer, log |-> cxLog,
                  took |-> cx.took]
    /\ UNCHANGED <<cxBufferSize, cxMaxRetries, mwVars, maVars, sinkVars>>

\* new ContexaTraceAdapter({bufferSize, maxRetries, ...})
ContexaConstruct(bufferSize, maxRetries) ==
    /\ cxBufferSize = bufferSize
    /\ cxMaxRetries = maxRetries
    /\ cxBuffer = <<>>
    /\ cxIsRunning = FALSE
    /\ cxStop = FALSE
    /\ cxWorker = FALSE
    /\ cxFlush = FlushIdle
    /\ cxSends = {}
    /\ cxDelivered = <<>>
    /\ cxLog = EmptyLog
    /\ cxExports = 0
    /\ cxShifted = <<>>
    /\ cxAttempts = [e \in 1..MaxExports |-> 0]
    /\ cxDropped = {}
    /\ cxLast = [op |-> "new", rec |-> 0, buffer |-> <<>>, log |-> EmptyLog, took |-> 0]

\* the application (or the middleware) exports the next record
ContexaExport ==
    /\ cxExports < MaxExports
    /\ cxExports' = cxExports + 1
    /\ CxStep("export", cxExports + 1, export(Cx, cxExports + 1))

\* the interval fires
ContexaWorkerTick ==
    /\ cxWorker
    /\ CxStep("tick", 0, workerTick(Cx))
    /\ UNCHANGED cxExports

\* a fetch in flight returns
ContexaFetchReturns(sending, ok) ==
    /\ sending \in cxSends
    /\ CxStep("fetch", sending.event, fetchReturns(Cx, sending, ok))
    /\ UNCHANGED cxExports

\* flush(timeout) is called
ContexaFlush(timeout) ==
    /\ cxFlush.state # "running"
    /\ CxStep("flush", 0, flush(Cx, timeout, "flush"))
    /\ UNCHANGED cxExports

\* flush() goes on once the send it awaited has returned
ContexaFlushLoop ==
    /\ cxFlush.state = "running"
    /\ \A sending \in cxSends : sending.by # "flush"
    /\ CxStep("flushLoop", 0, flushLoop(Cx))
    /\ UNCHANGED cxExports

\* shutdown(wait, timeout) is called
ContexaShutdown(wait, timeout) ==
    /\ ~ cxStop
    /\ cxFlush.state # "running"
    /\ CxStep("shutdown", 0, shutdown(Cx, wait, timeout))
    /\ UNCHANGED cxExports

ContexaNext ==
    \/ ContexaExport
    \/ ContexaWorkerTick
    \/ \E sending \in cxSends, ok \in BOOLEAN : ContexaFetchReturns(sending, ok)
    \/ \E timeout \in TimeoutChoices : ContexaFlush(timeout)
    \/ ContexaFlushLoop
    \/ \E wait \in BOOLEAN, timeout \in TimeoutChoices : ContexaShutdown(wait, timeout)

----------------------------------------------------------------------------
(* OTLPAdapter: a record is projected onto one OpenTelemetry span *)

\* the factor of `getTime() * 1000000`
NsPerMs == 1000000

\* ms * 1000000, kept as the pair: the product does not fit TLC's integers
toNanos(ms) == [ms |-> ms, times |-> NsPerMs]

\* JavaScript truthiness of an optional text kept as a tuple: undefined and
\* the empty text are falsy
TruthyText(o) == IsSome(o) /\ o[1] # <<>>

\* JavaScript truthiness of an optional number: undefined and 0 are falsy
TruthyNumber(o) == IsSome(o) /\ o[1] # 0

\* JavaScript truthiness of an optional boolean
TruthyFlag(o) == IsSome(o) /\ o[1]

\* createSpanAttributes(traceData): the attributes that tell of the error and
\* of the duration
createSpanAttributes(traceData) ==
    [duration_ms |-> GetF(traceData, "duration"),
     is_error |-> IF TruthyFlag(GetF(traceData, "is_error"))
                  THEN GetF(traceData, "is_error") ELSE None]

\* span.setStatus: code 2 (ERROR) with the message, or code 1 (OK)
statusOf(traceData) ==
    IF TruthyText(GetF(traceData, "error"))
    THEN [code |-> 2, message |-> GetF(traceData, "error")]
    ELSE [code |-> 1, message |-> None]

\* the events added to the span, in order
eventsOf(traceData) ==
    (IF IsSome(GetF(traceData, "request")) THEN <<"request">> ELSE <<>>)
    \o (IF IsSome(GetF(traceData, "response")) THEN <<"response">> ELSE <<>>)
    \o (IF TruthyText(GetF(traceData, "error")) THEN <<"exception">> ELSE <<>>)

\* the startTime option of tracer.startSpan: undefined when the record has no
\* timestamp.  new Date(iso).getTime() gives back the ms toISOString() was
\* given
startTimeOf(traceData) ==
    IF IsSome(GetF(traceData, "timestamp"))
    THEN Some(toNanos(GetF(traceData, "timestamp")[1]))
    ELSE None

\* the argument of span.end: timestamp + duration, or Date.now() without a
\* timestamp; no argument when duration is undefined or 0
endTimeOf(traceData, now) ==
    IF TruthyNumber(GetF(traceData, "duration"))
    THEN Some(toNanos(IF IsSome(GetF(traceData, "timestamp"))
                      THEN GetF(traceData, "timestamp")[1] + GetF(traceData, "duration")[1]
                      ELSE now))
    ELSE None

\* the span export(traceData) starts and ends when Date.now() is now
otlpSpan(traceData, now) ==
    [attributes |-> createSpanAttributes(traceData),
     startTime |-> startTimeOf(traceData),
     events |-> eventsOf(traceData),
     status |-> statusOf(traceData),
     endTime |-> endTimeOf(traceData, now)]

\* when the span starts and ends, in ms: the tracer takes the current time
\* where it is given none
spanStartMs(span, now) == IF IsSome(span.startTime) THEN span.startTime[1].ms ELSE now
spanEndMs(span, now) == IF IsSome(span.endTime) THEN span.endTime[1].ms ELSE now

\* the records handed to OTLPAdapter.export
OtlpRecords ==
    [type : {Some("request")},
     timestamp : {None, Some(5)},
     duration : {None, Some(0), Some(7)},
     error : {None, Some(<<>>), Some(<<-32000, ": ", "boom">>)},
     is_error : {None, Some(FALSE), Some(TRUE)}]

\* new OTLPAdapter(config); installed: the OpenTelemetry packages can be imported
OtlpConstruct(installed) ==
    /\ otInstalled = installed
    /\ otSpans = <<>>
    /\ otFailed = 0
    /\ otNow = 0

\* export(traceData): initialize() throws without the packages, and export
\* logs and returns
OtlpExport(traceData) ==
    /\ Len(otSpans) + otFailed < MaxSpans
    /\ otNow' = otNow + DelayMs
    /\ IF otInstalled
       THEN /\ otSpans' = Append(otSpans, [record |-> traceData, at |-> otNow',
                                           span |-> otlpSpan(traceData, otNow')])
            /\ UNCHANGED otFailed
       ELSE /\ otFailed' = otFailed + 1
            /\ UNCHANGED otSpans
    /\ UNCHANGED <<otInstalled, mwVars, maVars, cxVars, pgVars>>

OtlpNext == \E traceData \in OtlpRecords : OtlpExport(traceData)

----------------------------------------------------------------------------
(* PostgresTraceAdapter: records are buffered and inserted in batches *)

\* config.batchSize || 100
DefaultBatchSize == 100

Pg ==
    [buffer |-> pgBuffer, flushTimer |-> pgFlushTimer, inserts |-> pgInserts]

\* performBatchInsert(events) begins: its query is in flight
performBatchInsert(pg, events) ==
    IF events = <<>> THEN pg
    ELSE [pg EXCEPT !.inserts = Append(@, [events |-> events, state |-> "running"])]

\* variant: the buffer is not cleared
postgresFlushKeepsBuffer(pg) ==
    IF pg.buffer = <<>> THEN pg ELSE performBatchInsert(pg, pg.buffer)

\* flush(), up to its await: the buffer is copied and cleared, and the copy
\* is handed to performBatchInsert
postgresFlush(pg) ==
    IF pg.buffer = <<>> THEN pg
    ELSE performBatchInsert([pg EXCEPT !.buffer = <<>>], pg.buffer)

\* export(traceData), up to its await
postgresExport(pg, traceData) ==
    LET pushed == [pg EXCEPT !.buffer = Append(@, traceData)]
    IN IF Len(pushed.buffer) >= pgBatchSize THEN postgresFlush(pushed) ELSE pushed

\* stopFlushTimer()
stopFlushTimer(pg) == [pg EXCEPT !.flushTimer = FALSE]

\* shutdown(), up to its await
postgresShutdown(pg) == postgresFlush(stopFlushTimer(pg))

\* the query of the k-th batch returns, or throws and the error is logged
queryReturns(pg, k, ok) ==
    [pg EXCEPT !.inserts[k].state = IF ok THEN "ok" ELSE "failed"]

PgStep(op, pg) ==
    /\ pgBuffer' = pg.buffer
    /\ pgFlushTimer' = pg.flushTimer
    /\ pgInserts' = pg.inserts
    /\ pgLast' = [op |-> op, buffer |-> pgBuffer]
    /\ UNCHANGED <<pgBatchSize, mwVars, maVars, cxVars, otVars>>

\* new PostgresTraceAdapter({dsn, batchSize}): the flush timer is started
PostgresConstruct(batchSize) ==
    /\ pgBatchSize = IF batchSize = 0 THEN DefaultBatchSize ELSE batchSize
    /\ pgBuffer = <<>>
    /\ pgFlushTimer = TRUE
    /\ pgInserts = <<>>
    /\ pgExports = 0
    /\ pgShutdownAt = None
    /\ pgLast = [op |-> "new", buffer |-> <<>>]

\* the application (or the middleware) exports the next record
PostgresExport ==
    /\ pgExports < MaxRecords
    /\ pgExports' = pgExports + 1
    /\ PgStep("export", postgresExport(Pg, pgExports + 1))
    /\ UNCHANGED pgShutdownAt

\* the flush interval fires
PostgresTimerFires ==
    /\ pgFlushTimer
    /\ PgStep("timer", postgresFlush(Pg))
    /\ UNCHANGED <<pgExports, pgShutdownAt>>

\* the query of a batch returns
PostgresQueryReturns(k, ok) ==
    /\ k \in 1..Len(pgInserts)
    /\ pgInserts[k].state = "running"
    /\ PgStep("query", queryReturns(Pg, k, ok))
    /\ UNCHANGED <<pgExports, pgShutdownAt>>

\* shutdown() is called
PostgresShutdown ==
    /\ pgShutdownAt = None
    /\ pgShutdownAt' = Some(pgExports)
    /\ PgStep("shutdown", postgresShutdown(Pg))
    /\ UNCHANGED pgExports

PostgresNext ==
    \/ PostgresExport
    \/ PostgresTimerFires
    \/ \E k \in 1..MaxRecords, ok \in BOOLEAN : PostgresQueryReturns(k, ok)
    \/ PostgresShutdown

\* the adapters that are not in use
SinksIdle == OtlpConstruct(TRUE) /\ PostgresConstruct(0)

----------------------------------------------------------------------------
(* TraceMiddleware: the steps *)

\* the tables, the sink's calls and the time before a step
Snapshot ==
    [pendingRequests |-> pendingRequests,
     pendingRequestTimeouts |-> pendingRequestTimeouts,
     timers |-> timers,
     exported |-> exported,
     clock |-> clock]

\* the step op ends in the state st
Step(op, message, extra, transport, st) ==
    /\ steps < MaxSteps
    /\ steps' = steps + 1
    /\ clock' = st.now
    /\ pendingRequests' = st.pendingRequests
    /\ pendingRequestTimeouts' = st.pendingRequestTimeouts
    /\ timers' = st.timers
    /\ nextHandle' = st.nextHandle
    /\ exported' = st.exported
    /\ unhandled' = st.unhandled
    /\ unsettled' = st.unsettled
    /\ evicted' = st.evicted
    /\ last' = [op |-> op, msg |-> message, extra |-> extra, tr |-> transport,
                events |-> st.events, raised |-> st.raised, pre |-> Snapshot]
    /\ UNCHANGED <<config, maVars, cxVars, sinkVars>>

\* the transport delivers an inbound message
OnMessage(ch, message) ==
    Step("onmessage", message, ch.extra, ch.tr,
         installedOnMessage(MwState(clock + DelayMs), message, ch.extra, ch.tr))

\* the server sends an outbound message
Send(transport, message) ==
    Step("send", message, None, transport,
         installedSend(MwState(clock + DelayMs), message, transport))

\* an eviction timer fires, no earlier than it is due
TimerFires(tm) ==
    /\ tm \in timers
    /\ Step("timer", OtherMsg, None, "t1",
            evictionCallback(MwState(IF clock >= tm.due THEN clock ELSE tm.due), tm))

\* a promise returned by the sink's export settles; nobody awaits it
ExportSettles ==
    /\ sinkMode = "slow"
    /\ unsettled > 0
    /\ unsettled' = unsettled - 1
    /\ UNCHANGED <<config, pendingRequests, pendingRequestTimeouts, timers, nextHandle,
                   exported, unhandled, evicted, clock, steps, last, maVars, cxVars,
                   sinkVars>>

\* TraceMiddleware.shutdown()
Shutdown ==
    Step("shutdown", OtherMsg, None, "t1", cleanup(MwState(clock)))

\* new TraceMiddleware(options), init(server) and server.connect(transport)
\* for both transports
Profiles ==
    { [disabled |-> {}, redact |-> "none", user |-> "none",
       orig |-> TRUE, origMode |-> "ok", sink |-> "ok", attach |-> 1],
      [disabled |-> {"duration"}, redact |-> "mask", user |-> "ok",
       orig |-> TRUE, origMode |-> "throw", sink |-> "reject", attach |-> 1],
      [disabled |-> {"request", "response", "client_id"}, redact |-> "throws",
       user |-> "throws", orig |-> FALSE, origMode |-> "ok", sink |-> "throw", attach |-> 1],
      [disabled |-> {"type", "method", "session_id", "entity_name", "timestamp"},
       redact |-> "mask", user |-> "ok",
       orig |-> TRUE, origMode |-> "ok", sink |-> "ok", attach |-> 1],
      [disabled |-> {"error", "ip_address", "user_id", "user_name", "user_email",
                     "arguments"},
       redact |-> "none", user |-> "ok",
       orig |-> TRUE, origMode |-> "ok", sink |-> "throw", attach |-> 1],
      [disabled |-> {}, redact |-> "mask", user |-> "ok",
       orig |-> TRUE, origMode |-> "ok", sink |-> "ok", attach |-> 1],
      [disabled |-> {}, redact |-> "throws", user |-> "none",
       orig |-> TRUE, origMode |-> "throw", sink |-> "ok", attach |-> 1],
      [disabled |-> {}, redact |-> "none", user |-> "none",
       orig |-> TRUE, origMode |-> "ok", sink |-> "slow", attach |-> 1],
      [disabled |-> {}, redact |-> "none", user |-> "none",
       orig |-> TRUE, origMode |-> "ok", sink |-> "hang", attach |-> 1] }

InitLast ==
    [op |-> "init", msg |-> OtherMsg, extra |-> None, tr |-> "t1",
     events |-> <<>>, raised |-> FALSE,
     pre |-> [pendingRequests |-> EmptyMap, pendingRequestTimeouts |-> EmptyMap,
              timers |-> {}, exported |-> <<>>, clock |-> 0]]

MwFields(p, given) ==
    /\ logFields = MergeLogFields(DefaultLogFields, given)
    /\ redactMode = p.redact
    /\ userMode = p.user
    /\ hasOrigOnMessage = p.orig
    /\ origMode = p.origMode
    /\ sinkMode = p.sink
    /\ attachCount = p.attach
    /\ pendingRequests = EmptyMap
    /\ pendingRequestTimeouts = EmptyMap
    /\ timers = {}
    /\ nextHandle = 1
    /\ exported = <<>>
    /\ unhandled = 0
    /\ unsettled = 0
    /\ evicted = {}
    /\ clock = 0
    /\ steps = 0
    /\ last = InitLast

\* what options.adapter may be: missing, null, an object without export, an
\* object whose export is not a function, or a TraceAdapter
AdapterKinds == {"undefined", "null", "noExport", "exportNotFunction", "valid"}

AdapterRequired == "TraceAdapter is required"

ExportRequired == "TraceAdapter must implement export method"

\* variant: only the presence of the adapter is tested
validatesPresenceOnly(o) ==
    IF o.adapter \in {"undefined", "null"} THEN Some(AdapterRequired) ELSE None

\* validateOptions(options): the message of the Error it throws, if it throws
validateOptions(o) ==
    IF o.adapter \in {"undefined", "null"} THEN Some(AdapterRequired)
    ELSE IF o.adapter # "valid" THEN Some(ExportRequired)
    ELSE None

\* new TraceMiddleware(options), options valid; p is how the functions behave
\* that options.adapter, options.redact and options.identifyUser name
MwConstructWith(p, o) ==
    /\ options = o
    /\ constructed = TRUE
    /\ thrown = None
    /\ MwFields(p, o.logFields)

\* new TraceMiddleware(options) with a TraceAdapter and p.disabled set to false
MwConstruct(p) ==
    MwConstructWith(p, [adapter |-> "valid", logFields |-> OptionsLogFields(p.disabled)])

\* the options left at their defaults
DefaultProfile ==
    [disabled |-> {}, redact |-> "none", user |-> "none",
     orig |-> TRUE, origMode |-> "ok", sink |-> "ok", attach |-> 1]

\* options.logFields as the caller may pass it, with true and false entries
\* (<<>> when it is left out)
LogFieldsChoices ==
    { <<>>,
      [duration |-> FALSE, method |-> TRUE],
      [ip_address |-> FALSE, response |-> FALSE, user_id |-> TRUE, type |-> TRUE] }

\* new TraceMiddleware(options): validateOptions throws before any field of
\* the constructor is assigned, and the caller gets no instance
MwNew(p, o) ==
    IF validateOptions(o) = None
    THEN MwConstructWith(p, o)
    ELSE /\ options = o
         /\ constructed = FALSE
         /\ thrown = validateOptions(o)
         /\ MwFields(p, <<>>)

Init ==
    /\ \E p \in Profiles : MwConstruct(p)
    /\ MultiConstruct(<<>>)
    /\ ContexaConstruct(DefaultBufferSize, DefaultMaxRetries)
    /\ SinksIdle

Next ==
    \/ \E ch \in Channels, m \in InboundMsgs : OnMessage(ch, m)
    \/ \E t \in Transports, m \in OutboundMsgs : Send(t, m)
    \/ \E tm \in timers : TimerFires(tm)
    \/ Shutdown
    \/ ExportSettles

Spec == Init /\ [][Next]_vars

\* the middleware from `new TraceMiddleware(options)` on, whatever options is
InitNew ==
    /\ \E o \in [adapter : AdapterKinds, logFields : LogFieldsChoices] :
          MwNew(DefaultProfile, o)
    /\ MultiConstruct(<<>>)
    /\ ContexaConstruct(DefaultBufferSize, DefaultMaxRetries)
    /\ SinksIdle

\* handle() and shutdown() are methods of an instance
NextNew ==
    \/ \E ch \in Channels, m \in InboundMsgs : constructed /\ OnMessage(ch, m)
    \/ \E t \in Transports, m \in OutboundMsgs : constructed /\ Send(t, m)
    \/ \E tm \in timers : constructed /\ TimerFires(tm)
    \/ constructed /\ Shutdown

SpecNew == InitNew /\ [][NextNew]_vars

\* the middleware after handle(transport) has run twice for each transport
\* (init(server) called twice, or server.connect called twice with the
\* transport), with all fields logged
InitTwice ==
    /\ \E p \in {q \in Profiles : q.disabled = {}} : MwConstruct([p EXCEPT !.attach = 2])
    /\ MultiConstruct(<<>>)
    /\ ContexaConstruct(DefaultBufferSize, DefaultMaxRetries)
    /\ SinksIdle

SpecTwice == InitTwice /\ [][Next]_vars

\* a MultiAdapter over up to MaxSinks sinks, its export called by the application
InitMulti ==
    /\ MwConstruct(DefaultProfile)
    /\ \E adapters \in SeqsUpTo(SinkModes, MaxSinks) : MultiConstruct(adapters)
    /\ ContexaConstruct(DefaultBufferSize, DefaultMaxRetries)
    /\ SinksIdle

SpecMulti == InitMulti /\ [][MultiNext]_vars

\* the same, with the scheduling of the event loop: the continuation of
\* `await Promise.allSettled(promises)` runs once the promise is settled.
\* Nothing makes a sink's own export settle.
\* Which record is exported has no part in when the call returns: one is used.
MultiNextFair ==
    \/ MultiExport("r1")
    \/ \E c \in 1..MaxCalls, i \in 1..MaxSinks : MultiSinkSettles(c, i)
    \/ \E c \in 1..MaxCalls : MultiExportReturns(c)

SpecMultiFair ==
    /\ InitMulti
    /\ [][MultiNextFair]_vars
    /\ \A c \in 1..MaxCalls : WF_vars(MultiExportReturns(c))

\* a MultiAdapter whose flush and shutdown are called
InitMultiOptional ==
    /\ MwConstruct(DefaultProfile)
    /\ \E optional \in SeqsUpTo(SinkKinds, MaxSinks) :
          MultiConstructWith([i \in 1..Len(optional) |-> "ok"], optional)
    /\ ContexaConstruct(DefaultBufferSize, DefaultMaxRetries)
    /\ SinksIdle

SpecMultiOptional == InitMultiOptional /\ [][MultiOptionalNext]_vars

\* a ContexaTraceAdapter used directly
InitContexa ==
    /\ MwConstruct(DefaultProfile)
    /\ MultiConstruct(<<>>)
    /\ \E bufferSize \in 0..MaxBufferSize, maxRetries \in RetryChoices :
          ContexaConstruct(bufferSize, maxRetries)
    /\ SinksIdle

SpecContexa == InitContexa /\ [][ContexaNext]_vars

\* a ContexaTraceAdapter with room for every record, with the scheduling of
\* the event loop: the interval fires as long as it is set, every fetch
\* returns (ok or not), and flush() resumes once the send it awaits returns.
\* Nothing makes the application call export, flush or shutdown.
\* A timeout is given to the flush of shutdown only.
ContexaNextFair ==
    \/ ContexaExport
    \/ ContexaWorkerTick
    \/ \E sending \in cxSends, ok \in BOOLEAN : ContexaFetchReturns(sending, ok)
    \/ ContexaFlush(None)
    \/ ContexaFlushLoop
    \/ \E wait \in BOOLEAN, timeout \in TimeoutChoices : ContexaShutdown(wait, timeout)

InitContexaFair ==
    /\ MwConstruct(DefaultProfile)
    /\ MultiConstruct(<<>>)
    /\ \E maxRetries \in RetryChoices : ContexaConstruct(MaxBufferSize, maxRetries)
    /\ SinksIdle

SpecContexaFair ==
    /\ InitContexaFair
    /\ [][ContexaNextFair]_vars
    /\ WF_vars(ContexaWorkerTick)
    /\ WF_vars(ContexaFlushLoop)
    /\ \A e \in 1..MaxExports :
          WF_vars(\E sending \in cxSends, ok \in BOOLEAN :
                     sending.event = e /\ ContexaFetchReturns(sending, ok))

\* an OTLPAdapter used directly
InitOtlp ==
    /\ MwConstruct(DefaultProfile)
    /\ MultiConstruct(<<>>)
    /\ ContexaConstruct(DefaultBufferSize, DefaultMaxRetries)
    /\ \E installed \in BOOLEAN : OtlpConstruct(installed)
    /\ PostgresConstruct(0)

SpecOtlp == InitOtlp /\ [][OtlpNext]_vars

\* a PostgresTraceAdapter used directly
InitPostgres ==
    /\ MwConstruct(DefaultProfile)
    /\ MultiConstruct(<<>>)
    /\ ContexaConstruct(DefaultBufferSize, DefaultMaxRetries)
    /\ OtlpConstruct(TRUE)
    /\ \E batchSize \in 0..MaxBatchSize : PostgresConstruct(batchSize)

SpecPostgres == InitPostgres /\ [][PostgresNext]_vars

----------------------------------------------------------------------------
(* What the last step did *)

\* the sink's earlier calls are still there
PrefixKept ==
    /\ Len(exported) >= Len(last.pre.exported)
    /\ SubSeq(exported, 1, Len(last.pre.exported)) = last.pre.exported

\* the calls of adapter.export made by the last step
ExportedInStep == SubSeq(exported, Len(last.pre.exported) + 1, Len(exported))

IsLog(ev) == ev.e = "log"
IsOrig(ev) == ev.e = "orig"
IsExport(ev) == ev.e = "export"

StepLogs == SelectSeq(last.events, IsLog)
OrigCalls == SelectSeq(last.events, IsOrig)

Logged(text) == \E k \in 1..Len(last.events) : last.events[k] = LogEvent(text)

TablesUnchanged ==
    /\ pendingRequests = last.pre.pendingRequests
    /\ pendingRequestTimeouts = last.pre.pendingRequestTimeouts
    /\ timers = last.pre.timers

\* the last step was the interception of an inbound request
RequestStep == last.op = "onmessage" /\ isJSONRPCRequest(last.msg)

\* the last step was the interception of an outbound response
ResponseStep == last.op = "send" /\ isJSONRPCResponse(last.msg)

\* ... whose id had a pending entry
MatchedResponseStep ==
    ResponseStep /\ last.msg.id[1] \in DOMAIN last.pre.pendingRequests

\* ... whose id had none
UnmatchedResponseStep ==
    ResponseStep /\ last.msg.id[1] \notin DOMAIN last.pre.pendingRequests

\* the last step was the interception of a notification, in either direction
NotificationStep ==
    last.op \in {"onmessage", "send"} /\ isJSONRPCNotification(last.msg)

\* the message of the last step came with a truthy X-Ignore-Traces header
BypassHeader == IsSome(last.extra) /\ Truthy(last.extra[1].ignore)

\* the timer that fired in the last step
FiredTimer == CHOOSE tm \in last.pre.timers : tm \notin timers

----------------------------------------------------------------------------
(* C1: a request followed by its response, before the eviction timer has   *)
(* fired, yields exactly one exported record: nothing is exported when the *)
(* request is intercepted, and the step that intercepts the response makes *)
(* exactly one call of the sink, with the combined record, whose duration  *)
(* is the time of the response minus the time of the request (the field is *)
(* there unless logFields disables it).                                    *)
C1_OneCombinedRecord ==
    /\ RequestStep =>
        /\ exported = last.pre.exported
        /\ last.msg.id[1] \in DOMAIN pendingRequests
        /\ pendingRequests[last.msg.id[1]].startTime = clock
    /\ MatchedResponseStep =>
        LET pending == last.pre.pendingRequests[last.msg.id[1]] IN
        /\ PrefixKept
        /\ Len(ExportedInStep) = 1
        /\ ExportedInStep[1].kind = "combined"
        /\ GetF(ExportedInStep[1].data, "method") = GetF(pending.requestData, "method")
        /\ GetF(ExportedInStep[1].data, "duration") =
              IF LogFieldDisabled("duration") THEN None
              ELSE Some(clock - pending.startTime)

C1_Witness ==
    /\ MatchedResponseStep
    /\ ~ LogFieldDisabled("duration")
    /\ Len(exported) = 1
    /\ exported[1].data.duration = Some(DelayMs)

(* C2: when an eviction timer fires, the entry of its id and the timer     *)
(* handle of that id are removed and nothing is exported; the number of    *)
(* pending entries, which the request had raised by one, falls by one; and *)
(* a request evicted unanswered never has a record exported.               *)
C2_EvictionDropsRequest ==
    /\ last.op = "timer" =>
        /\ exported = last.pre.exported
        /\ FiredTimer.id \notin DOMAIN pendingRequests
        /\ FiredTimer.id \notin DOMAIN pendingRequestTimeouts
        /\ clock >= FiredTimer.due
        /\ FiredTimer.id \in DOMAIN last.pre.pendingRequests =>
              Cardinality(DOMAIN pendingRequests) =
                  Cardinality(DOMAIN last.pre.pendingRequests) - 1
    /\ (RequestStep /\ last.msg.id[1] \notin DOMAIN last.pre.pendingRequests) =>
          Cardinality(DOMAIN pendingRequests) =
              Cardinality(DOMAIN last.pre.pendingRequests) + 1
    /\ \A k \in 1..Len(exported) : exported[k].req \notin evicted

C2_Witness ==
    /\ last.op = "timer"
    /\ FiredTimer.id \in DOMAIN last.pre.pendingRequests
    /\ evicted # {}
    /\ exported = <<>>

(* C3: a response whose id has no pending entry yields exactly one call of *)
(* the sink, with a record built from the response alone (no method, no    *)
(* request payload, no duration; the response's result or error), and the  *)
(* pending table and the timer table are as before.                        *)
C3_StandaloneResponse ==
    UnmatchedResponseStep =>
        /\ PrefixKept
        /\ Len(ExportedInStep) = 1
        /\ TablesUnchanged
        /\ LET r == ExportedInStep[1].data IN
            /\ GetF(r, "method") = None
            /\ GetF(r, "request") = None
            /\ GetF(r, "duration") = None
            /\ IsSome(GetF(r, "response")) =>
                  /\ IsSome(last.msg.result)
                  /\ GetF(r, "response")[1].val = last.msg.result[1].val
            /\ (IsSome(last.msg.result) /\ ~ LogFieldDisabled("response")) =>
                  IsSome(GetF(r, "response"))
            /\ (IsSome(last.msg.error) /\ ~ LogFieldDisabled("error")) =>
                  GetF(r, "error") = Some(ErrorSummary(last.msg.error[1]))

C3_Witness ==
    /\ UnmatchedResponseStep
    /\ Len(last.pre.exported) = 1
    /\ Len(exported) = 2
    /\ last.pre.pendingRequests # EmptyMap
    /\ IsSome(GetF(exported[2].data, "response"))

(* C5: on every inbound message and every outbound send the wrapper runs   *)
(* the tracing logic first and then calls the original hook, when there is *)
(* one, with the message it was given; this also when the tracing logic    *)
(* fails (the sink throws, the redaction function throws, the identity     *)
(* function throws): the failure is logged, and no exception reaches the   *)
(* caller unless the original hook itself throws.                          *)
C5_OriginalHookStillCalled ==
    last.op \in {"onmessage", "send"} =>
        /\ (last.op = "send" \/ hasOrigOnMessage) => Len(OrigCalls) >= 1
        /\ \A k \in 1..Len(OrigCalls) : OrigCalls[k].msg = last.msg
        /\ \A i, j \in 1..Len(last.events) :
              (IsExport(last.events[i]) /\ IsOrig(last.events[j])) => i < j
        /\ \A i \in 1..Len(last.events) :
              (IsExport(last.events[i]) /\ sinkMode = "throw") =>
                  /\ i < Len(last.events)
                  /\ IsLog(last.events[i + 1])
        /\ (redactMode = "throws" /\ Len(ExportedInStep) > 0
            /\ (IsSome(last.msg.params) \/ IsSome(last.msg.result))) =>
                  Logged(LogRedaction)
        /\ (userMode = "throws" /\ Len(ExportedInStep) > 0 /\ IsSome(last.extra)) =>
                  Logged(LogUser)
        /\ last.raised => origMode = "throw"

C5_Witness ==
    /\ last.op = "onmessage"
    /\ sinkMode = "throw"
    /\ Len(ExportedInStep) = 1
    /\ Len(StepLogs) = 1
    /\ OrigCalls = <<OrigEvent(last.msg)>>
    /\ ~ last.raised

(* C6: no failure of the sink reaches the traced application: no promise   *)
(* returned by adapter.export rejects without a handler, and no exception  *)
(* of the sink leaves the wrapper.                                         *)
C6_SinkFailureAbsorbed ==
    /\ unhandled = 0
    /\ last.raised => origMode = "throw"

(* C8: in every record handed to the sink, whichever path built it, no     *)
(* field is present whose logFields entry is false, and every field of the *)
(* record that is not set to false is present.                             *)
TraceKeys ==
    {"type", "method", "timestamp", "session_id", "client_id", "duration",
     "entity_name", "request", "response", "error", "ip_address", "user_id",
     "user_name", "user_email"}

CombinedKeys == TraceKeys \ {"error", "ip_address"}

C9_BypassHeaderSkipsTracing ==
    (last.op = "onmessage" /\ BypassHeader) =>
        /\ exported = last.pre.exported
        /\ TablesUnchanged

(* C10: a message with a method and no id (and without the bypass header)  *)
(* is exported in the step that intercepts it, before the original hook    *)
(* runs, as exactly one record of type notification with no duration; the  *)
(* pending table and the timers are as before.                             *)
C10_NotificationExportedAtOnce ==
    (NotificationStep /\ ~ BypassHeader) =>
        /\ PrefixKept
        /\ Len(ExportedInStep) = 1
        /\ Len(SelectSeq(last.events, IsExport)) = 1
        /\ ExportedInStep[1].at = clock
        /\ ~ LogFieldDisabled("type") => ExportedInStep[1].data.type = Some("notification")
        /\ GetF(ExportedInStep[1].data, "duration") = None
        /\ GetF(ExportedInStep[1].data, "method") =
              IF LogFieldDisabled("method") THEN None ELSE last.msg.method
        /\ TablesUnchanged

C10_Witness ==
    /\ NotificationStep
    /\ ~ BypassHeader
    /\ last.op = "onmessage"
    /\ Len(exported) = 1
    /\ GetF(exported[1].data, "type") = Some("notification")
    /\ DOMAIN last.pre.pendingRequests # {}

(* C4: every call of MultiAdapter.export calls export on every sink with   *)
(* the record, whatever the sinks before and after it do (throw, reject);  *)
(* each failure is caught and logged with the sink's index; the promise    *)
(* export returns never rejects.                                           *)
C4_EverySinkReceives ==
    \A c \in 1..Len(maCalls) :
        LET call == maCalls[c] IN
        /\ Len(call.wrappers) = Len(maAdapters)
        /\ call.result # "rejected"
        /\ \A i \in 1..Len(maAdapters) :
              /\ call.wrappers[i].invoked
              /\ Len(maReceived[i]) = Len(maCalls)
              /\ maReceived[i][c] = call.rec
              /\ call.wrappers[i].state \in {"awaiting", "fulfilled"}
              /\ call.wrappers[i].logs =
                    IF call.wrappers[i].state = "fulfilled" /\ maAdapters[i] # "ok"
                    THEN <<ExportFailed(i, c)>> ELSE <<>>

C4_Witness ==
    /\ maAdapters = <<"reject", "ok", "throw">>
    /\ Len(maCalls) = 2
    /\ maCalls[1].result = "fulfilled"
    /\ maReceived[2] = <<"r1", "r2">>
    /\ maCalls[1].wrappers[1].logs = <<ExportFailed(1, 1)>>
    /\ maCalls[2].wrappers[3].logs = <<ExportFailed(3, 2)>>

(* C7: ContexaTraceAdapter.export appends the record exactly when the     *)
(* buffer holds fewer than bufferSize records; otherwise the buffer is as  *)
(* before and one "buffer full" warning is logged. As long as nothing has  *)
(* been taken from the buffer, E exports into capacity N leave the first   *)
(* min(N, E) records buffered, in order, and max(0, E - N) warnings.       *)
Warnings(logged) == logged[BufferFull]

C7_DropNewestWhenFull ==
    /\ cxLast.op = "export" =>
          IF Len(cxLast.buffer) < cxBufferSize
          THEN /\ cxBuffer = Append(cxLast.buffer, cxLast.rec)
               /\ cxLog = cxLast.log
          ELSE /\ cxBuffer = cxLast.buffer
               /\ cxLog = logLine(cxLast.log, BufferFull)
    /\ Len(cxBuffer) <= cxBufferSize
    /\ cxShifted = <<>> =>
          LET kept == IF cxExports < cxBufferSize THEN cxExports ELSE cxBufferSize
          IN /\ cxBuffer = [i \in 1..kept |-> i]
             /\ Warnings(cxLog) = cxExports - kept

C7_Witness ==
    /\ cxLast.op = "export"
    /\ cxBufferSize = 1
    /\ cxExports = MaxExports
    /\ cxShifted = <<>>
    /\ cxBuffer = <<1>>
    /\ Warnings(cxLog) = MaxExports - 1

(* C11: the combined record has the method, entity name, session id,       *)
(* client id and user identity of the pending request record (which the    *)
(* request step took from the request: tools/call with params.name = add   *)
(* gives entity_name = add), the result of the response as its response    *)
(* payload, the request's payload as its request payload, and duration =   *)
(* time of the response - start time of the request; a field is missing    *)
(* only when logFields disables it.                                        *)
InheritedFields ==
    {"method", "entity_name", "session_id", "client_id", "user_id", "user_name",
     "user_email"}

C11_CombinedRecordFields ==
    /\ RequestStep =>
        LET requestData == pendingRequests[last.msg.id[1]].requestData IN
        /\ ~ LogFieldDisabled("method") => requestData.method = last.msg.method
        /\ (~ LogFieldDisabled("entity_name") /\ last.msg.method = Some("tools/call")) =>
              requestData.entity_name = last.msg.params[1].name
        /\ (~ LogFieldDisabled("request") /\ IsSome(last.msg.params)) =>
              /\ IsSome(requestData.request)
              /\ requestData.request[1].val = last.msg.params[1].val
    /\ (MatchedResponseStep /\ Len(ExportedInStep) = 1) =>
        LET pending == last.pre.pendingRequests[last.msg.id[1]]
            r == ExportedInStep[1].data
        IN /\ \A f \in InheritedFields : GetF(r, f) = GetF(pending.requestData, f)
           /\ ~ LogFieldDisabled("duration") =>
                 r.duration = Some(clock - pending.startTime)
           /\ (~ LogFieldDisabled("response") /\ IsSome(last.msg.result)) =>
                 /\ IsSome(r.response)
                 /\ r.response[1].val = last.msg.result[1].val
           /\ (~ LogFieldDisabled("request")
               /\ IsSome(GetF(pending.requestData, "request"))) =>
                 /\ IsSome(r.request)
                 /\ r.request[1].val = pending.requestData.request[1].val

C11_Witness ==
    /\ MatchedResponseStep
    /\ Len(exported) = 1
    /\ GetF(exported[1].data, "entity_name") = Some("add")
    /\ GetF(exported[1].data, "method") = Some("tools/call")
    /\ GetF(exported[1].data, "session_id") = Some("hs1")
    /\ GetF(exported[1].data, "duration") = Some(DelayMs)
    /\ IsSome(GetF(exported[1].data, "request"))
    /\ IsSome(GetF(exported[1].data, "response"))
    /\ exported[1].data.request[1].val = "args"
    /\ exported[1].data.response[1].val = "sum3"

(* C12: when the redaction function throws, the step that builds a record  *)
(* from a message with a payload logs the error, the record is exported    *)
(* all the same with the payload as it came (not redacted); and the        *)
(* pending table and the timers change as they do for any request and      *)
(* response: the request is stored with its timer, the answered request is *)
(* removed and its timer cleared.                                          *)
Unredacted(payload, original) ==
    IsSome(payload) /\ IsSome(original) /\ payload[1] = original[1]

C12_RedactionErrorKeepsPayload ==
    redactMode = "throws" =>
        /\ \A k \in 1..Len(exported) :
              \A f \in {"request", "response"} :
                  IsSome(GetF(exported[k].data, f)) => exported[k].data[f][1].red = 0
        /\ (NotificationStep /\ IsSome(last.msg.params)) =>
              /\ Logged(LogRedaction)
              /\ Len(ExportedInStep) = 1
              /\ ~ LogFieldDisabled("request") =>
                    Unredacted(ExportedInStep[1].data.request, last.msg.params)
        /\ RequestStep =>
              LET id == last.msg.id[1] IN
              /\ IsSome(last.msg.params) => Logged(LogRedaction)
              /\ id \in DOMAIN pendingRequests
              /\ pendingRequests[id].startTime = clock
              /\ ~ LogFieldDisabled("request") =>
                    pendingRequests[id].requestData.request = last.msg.params
              /\ id \in DOMAIN pendingRequestTimeouts
              /\ \E tm \in timers \ last.pre.timers :
                    /\ tm.h = pendingRequestTimeouts[id]
                    /\ tm.id = id
                    /\ tm.due = clock + EvictionMs
        /\ (ResponseStep /\ IsSome(last.msg.result)) =>
              /\ Logged(LogRedaction)
              /\ Len(ExportedInStep) = 1
              /\ ~ LogFieldDisabled("response") =>
                    Unredacted(ExportedInStep[1].data.response, last.msg.result)
        /\ (MatchedResponseStep /\ sinkMode # "throw") =>
              LET id == last.msg.id[1] IN
              /\ id \notin DOMAIN pendingRequests
              /\ id \notin DOMAIN pendingRequestTimeouts
              /\ \A tm \in timers : tm.h # last.pre.pendingRequestTimeouts[id]

C12_Witness ==
    /\ redactMode = "throws"
    /\ sinkMode = "ok"
    /\ MatchedResponseStep
    /\ Logged(LogRedaction)
    /\ Len(exported) = 1
    /\ Unredacted(GetF(exported[1].data, "request"),
                  last.pre.pendingRequests[last.msg.id[1]].requestData.request)
    /\ Unredacted(GetF(exported[1].data, "response"), last.msg.result)
    /\ pendingRequests = EmptyMap
    /\ timers = {}

(* C13: after shutdown() the pending table is empty and no eviction timer  *)
(* of the middleware is still scheduled, whatever requests (repeated ids   *)
(* included), responses and evictions came before.                         *)
C13_ShutdownCancelsEveryTimer ==
    last.op = "shutdown" =>
        /\ pendingRequests = EmptyMap
        /\ pendingRequestTimeouts = EmptyMap
        /\ timers = {}

(* C14: flush(timeout) takes records from the buffer and delivers them     *)
(* until the buffer is empty or the timeout has passed, and is never still *)
(* running, nor returns, later than its timeout after it was called.       *)
C14_FlushBoundedByTimeout ==
    (cxFlush.state \in {"running", "done"} /\ IsSome(cxFlush.timeout)) =>
        cxFlush.elapsed <= cxFlush.timeout[1]

(* C15: for each record taken from the buffer at most maxRetries fetches   *)
(* are made, with retryDelay after each failed one; a record that was      *)
(* delivered has no fetch in flight (the first success ends the attempts); *)
(* a record whose maxRetries fetches all failed is dropped: it is neither  *)
(* in the buffer nor in flight nor delivered, and one "max retries         *)
(* exceeded" line is logged per dropped record.                            *)
InFlight(e) == \E sending \in cxSends : sending.event = e

InSeq(e, q) == \E k \in 1..Len(q) : q[k] = e

C15_AtMostMaxRetriesThenDropped ==
    /\ \A sending \in cxSends : sending.attempt \in 1..cxMaxRetries
    /\ \A e \in 1..MaxExports :
        /\ cxAttempts[e] <= cxMaxRetries
        /\ cxAttempts[e] > 0 <=> InSeq(e, cxShifted)
        /\ InSeq(e, cxShifted) =>
              /\ ~ InSeq(e, cxBuffer)
              /\ Cardinality({k \in 1..Len(cxShifted) : cxShifted[k] = e}) = 1
              /\ Cardinality({x \in {"f", "d", "x"} :
                      \/ x = "f" /\ InFlight(e)
                      \/ x = "d" /\ InSeq(e, cxDelivered)
                      \/ x = "x" /\ e \in cxDropped}) = 1
        /\ InSeq(e, cxDelivered) =>
              Cardinality({k \in 1..Len(cxDelivered) : cxDelivered[k] = e}) = 1
        /\ e \in cxDropped => cxAttempts[e] = cxMaxRetries
    /\ cxLog[MaxRetriesExceeded] = Cardinality(cxDropped)
    /\ (cxLast.op = "fetch"
        /\ cxLog[ServerOrNetworkError] = cxLast.log[ServerOrNetworkError] + 1) =>
          /\ cxLast.took = RetryDelayMs
          /\ ~ InSeq(cxLast.rec, cxDelivered)
    /\ (cxLast.op = "fetch"
        /\ cxLog[ServerOrNetworkError] = cxLast.log[ServerOrNetworkError]) =>
          /\ InSeq(cxLast.rec, cxDelivered)
          /\ ~ InFlight(cxLast.rec)

C15_Witness ==
    /\ cxMaxRetries = 2
    /\ cxDropped = {1}
    /\ cxAttempts[1] = 2
    /\ cxDelivered = <<2>>
    /\ cxAttempts[2] = 2
    /\ cxLog[MaxRetriesExceeded] = 1
    /\ cxLog[ServerOrNetworkError] = 3

(* C16: shutdown() stops the worker's interval and then flushes: from the  *)
(* call on the interval is cleared and never set again, and in the step in *)
(* which shutdown's flush returns without having hit its timeout the       *)
(* buffer is empty and no send of that flush is in flight.                 *)
ShutdownReturned ==
    /\ cxLast.op \in {"shutdown", "flushLoop"}
    /\ cxFlush.by = "shutdown"
    /\ cxFlush.state = "done"

C16_ShutdownStopsWorkerAndFlushes ==
    /\ cxStop => (~ cxWorker /\ ~ cxIsRunning)
    /\ cxLast.op = "shutdown" => cxStop
    /\ cxFlush.by = "shutdown" => cxStop
    /\ (ShutdownReturned /\ ~ cxFlush.timedOut) =>
          /\ cxBuffer = <<>>
          /\ ~ cxWorker
          /\ \A sending \in cxSends : sending.by # "flush"

C16_Witness ==
    /\ ShutdownReturned
    /\ cxLast.op = "flushLoop"
    /\ ~ cxFlush.timedOut
    /\ cxShifted = <<1, 2>>
    /\ cxDelivered = <<1, 2>>
    /\ cxBuffer = <<>>
    /\ cxLast.buffer = <<>>

(* C17: a call of MultiAdapter.export has returned only if every sink's    *)
(* invocation has settled; while one is pending it cannot return, whatever *)
(* the other sinks did (failed or not); and once all have settled it does  *)
(* return.                                                                 *)
AllSettled(c) ==
    \A i \in 1..Len(maCalls[c].wrappers) : maCalls[c].wrappers[i].state # "awaiting"

C17_ExportReturnsWhenAllSettled ==
    /\ [](\A c \in 1..Len(maCalls) :
            /\ maCalls[c].result # "pending" => AllSettled(c)
            /\ ~ AllSettled(c) =>
                  /\ maCalls[c].result = "pending"
                  /\ ~ ENABLED MultiExportReturns(c))
    /\ \A c \in 1..MaxCalls :
          (c <= Len(maCalls) /\ AllSettled(c)) ~>
              (c <= Len(maCalls) /\ maCalls[c].result = "fulfilled")

C17_Witness ==
    /\ maAdapters = <<"throw", "reject", "ok">>
    /\ Len(maCalls) = 2
    /\ maCalls[1].result = "fulfilled"
    /\ maCalls[2].result = "pending"
    /\ maCalls[2].wrappers[2].state = "fulfilled"
    /\ maCalls[2].wrappers[3].state = "awaiting"

(* C18: MultiAdapter.flush(timeout) and MultiAdapter.shutdown() call the   *)
(* method on exactly the sinks whose property of that name is a function,  *)
(* flush with the caller's timeout and shutdown with no argument; a sink    *)
(* whose method throws or rejects is logged with its position, the other    *)
(* sinks are called all the same, and the call never rejects.               *)
Implements(i, method) == maOptional[i][method] \in {"ok", "throw", "reject"}

Fails(i, method) == maOptional[i][method] \in {"throw", "reject"}

RECURSIVE ExpectedInvocations(_, _)
ExpectedInvocations(i, calls) ==
    IF calls = <<>> THEN <<>>
    ELSE LET call == calls[Len(calls)]
             before == ExpectedInvocations(i, SubSeq(calls, 1, Len(calls) - 1))
         IN IF Implements(i, call.method)
            THEN Append(before,
                        [method |-> call.method,
                         args |-> IF call.method = "flush" THEN <<call.timeout>> ELSE <<>>])
            ELSE before

C18_OptionalMethodsDispatched ==
    /\ \A i \in 1..Len(maAdapters) : maInvoked[i] = ExpectedInvocations(i, maCtl)
    /\ \A c \in 1..Len(maCtl) :
          /\ maCtl[c].result \in {"pending", "fulfilled"}
          /\ \A i \in 1..Len(maAdapters) :
                LET wrapper == maCtl[c].wrappers[i]
                IN /\ wrapper.invoked <=> Implements(i, maCtl[c].method)
                   /\ wrapper.state \in {"awaiting", "fulfilled"}
                   /\ wrapper.state = "fulfilled" =>
                         wrapper.logs = IF Fails(i, maCtl[c].method)
                                        THEN <<[method |-> maCtl[c].method,
                                                index |-> i, call |-> c]>>
                                        ELSE <<>>

C18_Witness ==
    /\ Len(maAdapters) = 3
    /\ maOptional[1].flush = "throw"
    /\ maOptional[2].flush = "notFunction"
    /\ maOptional[3].flush = "ok"
    /\ Len(maCtl) = 1
    /\ maCtl[1].method = "flush"
    /\ maCtl[1].timeout = Some(FlushTimeoutMs)
    /\ maCtl[1].result = "fulfilled"
    /\ maInvoked[2] = <<>>
    /\ maInvoked[3] = <<[method |-> "flush", args |-> <<Some(FlushTimeoutMs)>>]>>

(* C19: new TraceMiddleware(options) throws an Error naming what is missing *)
(* when options.adapter is missing or its export is not a function, and    *)
(* then there is no instance (nothing is ever traced); with a TraceAdapter  *)
(* it gives an instance in which a field is disabled exactly when           *)
(* options.logFields sets it to false.                                      *)
SetToFalse(k) == k \in DOMAIN options.logFields /\ options.logFields[k] = FALSE

C19_ConstructorValidatesAdapter ==
    /\ options.adapter \in {"undefined", "null"} =>
          (~ constructed /\ thrown = Some("TraceAdapter is required"))
    /\ options.adapter \in {"noExport", "exportNotFunction"} =>
          (~ constructed /\ thrown = Some("TraceAdapter must implement export method"))
    /\ ~ constructed => (steps = 0 /\ exported = <<>> /\ ~ ENABLED NextNew)
    /\ options.adapter = "valid" =>
          /\ constructed
          /\ thrown = None
          /\ \A k \in TraceKeys \cup DOMAIN options.logFields :
                LogFieldDisabled(k) <=> SetToFalse(k)
          /\ \A n \in 1..Len(exported) :
                LET keys == IF exported[n].kind = "combined"
                            THEN CombinedKeys ELSE TraceKeys
                IN DOMAIN exported[n].data = {k \in keys : ~ SetToFalse(k)}

C19_DefaultsReached ==
    /\ options.adapter = "valid"
    /\ options.logFields = [duration |-> FALSE, method |-> TRUE]
    /\ Len(exported) = 1
    /\ exported[1].kind = "combined"
    /\ "method" \in DOMAIN exported[1].data
    /\ "ip_address" \notin DOMAIN exported[1].data
    /\ "user_id" \in DOMAIN exported[1].data

C19_Witness ==
    /\ options.adapter = "exportNotFunction"
    /\ options.logFields = [duration |-> FALSE, method |-> TRUE]
    /\ ~ constructed
    /\ thrown = Some(ExportRequired)

(* C20: a pending entry ends in one way only. The step that intercepts the  *)
(* response of a pending request removes the entry and cancels its timer,   *)
(* so that timer never fires; the step in which a timer fires removes the   *)
(* entry and the handle of its id; and no pending request is consumed by    *)
(* two combined records.                                                    *)
C20_OneTerminalTransition ==
    /\ MatchedResponseStep =>
          LET id == last.msg.id[1] IN
          /\ id \notin DOMAIN pendingRequests
          /\ id \notin DOMAIN pendingRequestTimeouts
          /\ id \in DOMAIN last.pre.pendingRequestTimeouts =>
                \A tm \in timers : tm.h # last.pre.pendingRequestTimeouts[id]
    /\ last.op = "timer" =>
          /\ FiredTimer.id \notin DOMAIN pendingRequests
          /\ FiredTimer.id \notin DOMAIN pendingRequestTimeouts
          /\ \A k \in 1..Len(exported) : exported[k].req # FiredTimer.h
    /\ \A j, k \in 1..Len(exported) :
          (j < k /\ exported[j].kind = "combined" /\ exported[k].kind = "combined") =>
              exported[j].req # exported[k].req

(* C21: for every inbound message the wrapper calls the original onmessage  *)
(* handler exactly once, also when that handler throws.                     *)
C21_OriginalOnMessageOnce ==
    (last.op = "onmessage" /\ hasOrigOnMessage) => Len(OrigCalls) = 1

(* C22: the sink's export is not awaited: the step that intercepts a        *)
(* message calls the original hook (when there is one) in that same step,   *)
(* with the message, also while promises returned by the sink's export are  *)
(* pending or never settle.                                                 *)
C22_ExportNotAwaited ==
    (last.op \in {"onmessage", "send"} /\ (last.op = "send" \/ hasOrigOnMessage)) =>
        /\ Len(OrigCalls) >= 1
        /\ OrigCalls[1].msg = last.msg

C22_Witness ==
    /\ sinkMode = "hang"
    /\ last.op = "send"
    /\ MatchedResponseStep
    /\ Len(ExportedInStep) = 1
    /\ unsettled = 2
    /\ OrigCalls = <<OrigEvent(last.msg)>>

(* C23: a request whose id already has a pending entry replaces that entry  *)
(* (the entry is then the one of the later request) without an error being  *)
(* logged or raised and without an export; the response that finds the      *)
(* entry yields exactly one combined record, built from the later request   *)
(* and consuming the later request's timer, never an earlier one.           *)
ReplacingRequestStep ==
    RequestStep /\ last.msg.id[1] \in DOMAIN last.pre.pendingRequests

C24_MatchedResponseRemovesEntry ==
    /\ MatchedResponseStep =>
          LET id == last.msg.id[1] IN
          /\ pendingRequests = MapDelete(last.pre.pendingRequests, id)
          /\ pendingRequestTimeouts = MapDelete(last.pre.pendingRequestTimeouts, id)
          /\ id \in DOMAIN last.pre.pendingRequestTimeouts =>
                timers = clearTimeout(last.pre.timers, last.pre.pendingRequestTimeouts[id])
    /\ \A j, k \in 1..Len(exported) :
          (exported[j].kind = "combined" /\ exported[k].kind = "combined"
           /\ exported[j].req = exported[k].req) => j = k

(* C25: when a timer's firing removes a pending entry, the timer is the one *)
(* started with that entry, and the eviction window has passed since the    *)
(* request that made the entry was intercepted.                             *)
C25_EvictedByOwnTimerOnly ==
    (last.op = "timer" /\ FiredTimer.id \in DOMAIN last.pre.pendingRequests) =>
        /\ FiredTimer.h = last.pre.pendingRequestTimeouts[FiredTimer.id]
        /\ clock >= last.pre.pendingRequests[FiredTimer.id].startTime + EvictionMs

(* C26: a response is combined only with a request that was received on the *)
(* transport the response is sent on, and the combined record's session id  *)
(* is that transport's.                                                     *)
C26_NoCrossTransportMatch ==
    MatchedResponseStep =>
        LET entry == last.pre.pendingRequests[last.msg.id[1]] IN
        /\ entry.transport = last.tr
        /\ ("session_id" \in DOMAIN ExportedInStep[1].data
            /\ ~ IsSome(entry.requestExtra)) =>
               ExportedInStep[1].data.session_id =
                   OrElse(TransportSessionId(last.tr), Some(""))

(* C27: the combined record of an error response carries the response's     *)
(* error summary (code and message), unless logFields disables the field.   *)
C27_CombinedRecordCarriesError ==
    (MatchedResponseStep /\ IsSome(last.msg.error) /\ ~ LogFieldDisabled("error")) =>
        GetF(ExportedInStep[1].data, "error") = Some(ErrorSummary(last.msg.error[1]))

(* C28: the session id of a record exported for a message (a notification   *)
(* in either direction, a response without pending entry) and of the record *)
(* kept for a request is the session header when the message came with one, *)
(* else the session id of the transport of the message, else "".            *)
ExpectedSessionId ==
    OrElse(IF IsSome(last.extra) THEN last.extra[1].sid ELSE None,
           OrElse(TransportSessionId(last.tr), Some("")))

C28_SessionIdDerivation ==
    /\ (NotificationStep \/ UnmatchedResponseStep) =>
          \A k \in 1..Len(ExportedInStep) :
              "session_id" \in DOMAIN ExportedInStep[k].data =>
                  ExportedInStep[k].data.session_id = ExpectedSessionId
    /\ (RequestStep /\ ~ LogFieldDisabled("session_id")) =>
          pendingRequests[last.msg.id[1]].requestData.session_id = ExpectedSessionId

(* C29: in both directions a message with a method and an id is treated as  *)
(* a request (the step leaves a pending entry for its id, started now), a   *)
(* message with a method and no id as a notification (the step exports one  *)
(* notification record), and a message without method that is not an        *)
(* outbound response leaves the exports and the tables as they were.        *)
C29_ClassificationInBothDirections ==
    last.op \in {"onmessage", "send"} =>
        /\ (IsSome(last.msg.method) /\ IsSome(last.msg.id)) =>
              /\ last.msg.id[1] \in DOMAIN pendingRequests
              /\ pendingRequests[last.msg.id[1]].startTime = clock
              /\ exported = last.pre.exported
        /\ (IsSome(last.msg.method) /\ ~ IsSome(last.msg.id)) =>
              /\ Len(ExportedInStep) = 1
              /\ ExportedInStep[1].kind = "notification"
              /\ TablesUnchanged
        /\ (~ IsSome(last.msg.method)
            /\ ~ (last.op = "send" /\ isJSONRPCResponse(last.msg))) =>
              /\ exported = last.pre.exported
              /\ TablesUnchanged

(* C30: each payload of a combined record has passed through the redaction  *)
(* function exactly once: its request payload is redact(params of the       *)
(* request) and its response payload is redact(result of the response).     *)
C30_RedactedExactlyOnce ==
    (MatchedResponseStep /\ redactMode = "mask") =>
        LET r == ExportedInStep[1].data IN
        /\ IsSome(GetF(r, "request")) => r.request[1].red = 1
        /\ IsSome(GetF(r, "response")) =>
              r.response = Some(Redact(last.msg.result[1]))

(* C40: after every step of the middleware (a message intercepted, a timer  *)
(* fired, shutdown) the pending table and the timer table have the same     *)
(* ids.                                                                     *)
C40_TablesHaveSameIds ==
    DOMAIN pendingRequests = DOMAIN pendingRequestTimeouts

C40_Witness ==
    /\ last.op = "shutdown"
    /\ last.pre.pendingRequests # EmptyMap
    /\ Cardinality(last.pre.timers) = 2
    /\ pendingRequests = EmptyMap
    /\ pendingRequestTimeouts = EmptyMap

(* C36: the buffer of a ContexaTraceAdapter never holds more than           *)
(* bufferSize records, whatever the order of exports, worker ticks,         *)
(* returning sends, flush and shutdown.                                     *)
C36_BufferWithinCapacity ==
    Len(cxBuffer) <= cxBufferSize

C36_Witness ==
    /\ cxBufferSize = 1
    /\ cxExports = MaxExports
    /\ Len(cxBuffer) = 1
    /\ cxShifted # <<>>
    /\ cxStop
    /\ cxLast.op = "export"

\* the records whose delivery has ended: sent, or dropped after the last attempt
Finished(e) == InSeq(e, cxDelivered) \/ e \in cxDropped

(* C35: the ContexaTraceAdapter delivers one record at a time, in the order *)
(* of acceptance: records leave the buffer in the order they were accepted, *)
(* and while a record is being delivered every record that left the buffer  *)
(* before it has been delivered or dropped.                                 *)
C35_OneDeliveryAtATime ==
    /\ \A i, j \in 1..Len(cxShifted) : i < j => cxShifted[i] < cxShifted[j]
    /\ \A j \in 1..Len(cxShifted) :
          InFlight(cxShifted[j]) =>
              \A i \in 1..(j - 1) : Finished(cxShifted[i])

(* C34: when flush() returns without its timeout being hit, no record       *)
(* accepted before the call is in the buffer or in a delivery that has not  *)
(* ended.                                                                   *)
C34_FlushLeavesNothingInFlight ==
    ( /\ cxLast.op \in {"flush", "flushLoop", "shutdown"}
      /\ cxFlush.state = "done"
      /\ ~ cxFlush.timedOut ) =>
        \A e \in 1..cxFlush.upto :
            /\ ~ InSeq(e, cxBuffer)
            /\ ~ InFlight(e)

(* C37: once shutdown() has been called the worker of the                   *)
(* ContexaTraceAdapter is never started again: stop stays set and no        *)
(* interval is set; an export() then still appends the record to a buffer   *)
(* that has room; no tick of the interval runs; a record leaves the buffer  *)
(* only in a flush.                                                         *)
C37_NoWorkerAfterShutdown ==
    /\ cxStop => (~ cxWorker /\ ~ cxIsRunning)
    /\ (cxStop /\ cxLast.op = "export") =>
          cxBuffer = IF hasRoom(cxLast.buffer, cxBufferSize)
                     THEN Append(cxLast.buffer, cxLast.rec)
                     ELSE cxLast.buffer
    /\ cxStop => cxLast.op # "tick"
    /\ (cxStop /\ cxBuffer # cxLast.buffer /\ cxLast.op # "export") =>
          /\ cxLast.op \in {"shutdown", "flush", "flushLoop"}
          /\ cxBuffer = Tail(cxLast.buffer)
          /\ \E sending \in cxSends :
                sending.event = Head(cxLast.buffer) /\ sending.by # "worker"

\* shutdown() has returned; the record exported after it is in the buffer and
\* no interval is set
C37_Witness ==
    /\ cxStop
    /\ cxFlush.by = "shutdown"
    /\ cxFlush.state = "done"
    /\ cxLast.op = "export"
    /\ cxLast.buffer = <<>>
    /\ cxBuffer = <<cxLast.rec>>
    /\ cxShifted # <<>>
    /\ ~ cxWorker

\* a record leaves the buffer once, into one delivery, which ends with the
\* record delivered, or dropped after maxRetries attempts
RemovedOnce(e) ==
    /\ Cardinality({k \in 1..Len(cxShifted) : cxShifted[k] = e}) <= 1
    /\ Cardinality({sending \in cxSends : sending.event = e}) <= 1
    /\ InSeq(e, cxShifted) => ~ InSeq(e, cxBuffer)
    /\ InSeq(e, cxShifted) = (InFlight(e) \/ Finished(e))
    /\ ~ (InFlight(e) /\ Finished(e))
    /\ ~ (InSeq(e, cxDelivered) /\ e \in cxDropped)
    /\ e \in cxDropped => cxAttempts[e] = cxMaxRetries

\* the interval is cleared by a tick that finds the buffer empty
StoppedByEmptyTick == cxBuffer = <<>> /\ cxLast'.op = "tick"

\* shutdown() has been called and no flush is draining the buffer
Stranded(e) == cxStop /\ cxFlush.state # "running" /\ InSeq(e, cxBuffer)

C32_ErrorStatusWhenErrorOrFlag ==
    \A k \in 1..Len(otSpans) :
        LET record == otSpans[k].record
            span == otSpans[k].span
            failed == TruthyText(record.error) \/ TruthyFlag(record.is_error)
        IN /\ span.status.code = IF failed THEN 2 ELSE 1
           /\ failed = (\E i \in 1..Len(span.events) : span.events[i] = "exception")

\* the combined record the last step exported, if it exported one
CombinedInStep ==
    {k \in (Len(last.pre.exported) + 1)..Len(exported) : exported[k].kind = "combined"}

(* C33: the span of a combined record starts when the request was           *)
(* intercepted and ends when the response was intercepted.                  *)
C33_SpanCoversTheOperation ==
    MatchedResponseStep =>
        \A k \in CombinedInStep :
            LET span == otlpSpan(exported[k].data, exported[k].at)
            IN /\ spanStartMs(span, exported[k].at)
                    = last.pre.pendingRequests[last.msg.id[1]].startTime
               /\ spanEndMs(span, exported[k].at) = clock

\* the number of batches handed to performBatchInsert that hold the record e
BatchesWith(e) ==
    Cardinality({k \in 1..Len(pgInserts) : InSeq(e, pgInserts[k].events)})

\* how many times the record e is in the sequence q
TimesIn(e, q) == Cardinality({i \in 1..Len(q) : q[i] = e})

(* C39: every record exported to the PostgresTraceAdapter is in the buffer  *)
(* or in one batch handed to performBatchInsert, never in two and never     *)
(* twice in one; once shutdown() has been called every record exported      *)
(* before it is in exactly one batch; after every export the buffer holds   *)
(* fewer than batchSize records.                                            *)
C39_EveryRecordInOneBatch ==
    /\ \A e \in 1..pgExports :
          /\ TimesIn(e, pgBuffer) + BatchesWith(e) = 1
          /\ \A k \in 1..Len(pgInserts) : TimesIn(e, pgInserts[k].events) <= 1
    /\ IsSome(pgShutdownAt) => \A e \in 1..pgShutdownAt[1] : BatchesWith(e) = 1
    /\ pgLast.op = "export" => Len(pgBuffer) < pgBatchSize

\* a batch flushed by size, whose query failed, and the rest flushed by
\* shutdown()
C39_Witness ==
    /\ pgBatchSize = 2
    /\ pgExports = 3
    /\ pgShutdownAt = Some(3)
    /\ Len(pgInserts) = 2
    /\ pgInserts[1].events = <<1, 2>>
    /\ pgInserts[1].state = "failed"
    /\ pgInserts[2].events = <<3>>
    /\ pgLast.op = "shutdown"
    /\ pgBuffer = <<>>

(* C31: with the interceptor attached twice to a transport, every message   *)
(* still reaches the original hook exactly once, and a request and its      *)
(* response still give exactly one exported record: none when the request   *)
(* is intercepted and one combined record when the response is.             *)
C31_DoubleAttachTracesOnce ==
    (attachCount = 2 /\ last.op \in {"onmessage", "send"}) =>
        /\ (origMode = "ok" /\ (last.op = "send" \/ hasOrigOnMessage)) =>
              OrigCalls = <<OrigEvent(last.msg)>>
        /\ RequestStep => Len(ExportedInStep) = 0
        /\ MatchedResponseStep =>
              /\ Len(ExportedInStep) = 1
              /\ ExportedInStep[1].kind = "combined"

====
